---- MODULE Spec2Model ----
(***************************************************************************)
(* State-machine model of the weekly planner's in-memory store (store.js), *)
(* its item, bundle, shopping-list and weekly-plan modules and the global  *)
(* handlers of app.js.                                                     *)
(*                                                                         *)
(* Strings that the code transforms (item names, item ids) are sequences   *)
(* of one-character strings, so that toLowerCase and slugify are computed. *)
(* Quantities are fixed-point numbers: the integer n stands for n/Scale.   *)
(* JavaScript indexes are 0-based; positions in a TLA+ sequence are        *)
(* 1-based, so the handlers' index i addresses position i + 1.             *)
(***************************************************************************)
EXTENDS Integers, Sequences, FiniteSets, TLC

\* ------------------------------------------------------------------ bounds
\* longest shopping list
MaxShop == 2
\* most quantity records in the whole shopping list
MaxRecs == 3
\* largest quantity value (in whole units) an increment may reach
MaxNum == 2
\* denominator of the fixed-point quantities (Scale = 2: halves)
Scale == 2
\* most items in the master list
MaxItems == 2
\* most references in one weekly-plan slot
MaxSlot == 2
\* most item references in one bundle
MaxRefs == 2
\* most bundles (the form may create some)
MaxBundles == 2

\* the largest number of selected items
MaxSel == 2
\* most save requests issued and not yet returned to their handler
MaxSaves == 2

VARIABLES
    items,        \* state.items: the master list, in order
    itemsById,    \* state.itemsById: id -> the item object (by its oid)
    bundles,      \* state.bundles
    activities,   \* state.activities
    chores,       \* state.chores
    shopping,     \* state.shopping
    weeklyPlan,   \* state.weeklyPlan
    formPending,  \* handlers suspended at `await saveItems()` with a part of
                  \* their mutation still to apply
    selectedItems,   \* state.selectedItems: Map bundleId -> Set of item ids,
                     \* both in insertion order
    expandedBundles, \* state.expandedBundles
    persisted,    \* what the persistence service holds, by resource
    saves,        \* the save requests issued and not yet returned to their
                  \* handler, in the order issued
    daySelection, \* the day-selection modal: pendingBundles, pendingShoppingItems,
                  \* window._daySelectionCallback, and the confirmations suspended
                  \* at `await saveWeeklyPlan()`
    rendered,     \* the shopping list as the view last drew it
    popup,        \* the extension popup: its list, statuses and automation state
    extension,    \* the extension's check-offs between their read and their write
    last          \* history: the last call, its arguments, the state before it

vars == <<items, itemsById, bundles, activities, chores, shopping, weeklyPlan,
          formPending, selectedItems, expandedBundles, persisted, saves,
          daySelection, rendered, popup, extension, last>>

\* ----------------------------------------------------------------- helpers
\* Array.prototype.find / findIndex: the first of the positions S that
\* satisfy the callback, 0 if none does
FirstIdx(S) ==
    IF S = {} THEN 0 ELSE CHOOSE i \in S : \A j \in S : i <= j

\* Array.prototype.splice(i, 1) for a position inside the array
RemoveAt(s, i) == SubSeq(s, 1, i - 1) \o SubSeq(s, i + 1, Len(s))

Range(s) == {s[i] : i \in 1..Len(s)}

Max(a, b) == IF a >= b THEN a ELSE b

\* all sequences over S of length at most n
SeqUpTo(S, n) == UNION {[1..k -> S] : k \in 0..n}

\* ------------------------------------------------------------ strings
UpperCase == {"A", "B", "C", "M"}

LowerChar(c) ==
    CASE c = "A" -> "a"
      [] c = "B" -> "b"
      [] c = "C" -> "c"
      [] c = "M" -> "m"
      [] OTHER -> c

\* String.prototype.toLowerCase
ToLowerCase(str) == [i \in DOMAIN str |-> LowerChar(str[i])]

\* the history record kept for the properties: the call, its arguments, the
\* modelled state before it (pre), whether the call before it was the same
\* call with the same arguments (twice) and the state before that one (pre2)
Hist(op, arg, pre) ==
    LET same == last.op = op /\ last.arg = arg
    IN  [op |-> op, arg |-> arg, pre |-> pre, twice |-> same,
         pre2 |-> IF same THEN last.pre ELSE pre]

NoHist == [op |-> "init", arg |-> <<>>, pre |-> <<>>, twice |-> FALSE, pre2 |-> <<>>]

\* a call recorded without the repeat bookkeeping of Hist
Call(op, arg, pre) == [NoHist EXCEPT !.op = op, !.arg = arg, !.pre = pre]


\* ------------------------------------------------------------ store.js
\* JavaScript's a || b on strings: the empty string is falsy
OrStr(a, b) == IF a # "" THEN a ELSE b

\* the value getItem returns when the index has no entry (null)
NoItem == [oid |-> 0, id |-> <<"null">>, name |-> <<>>, unit |-> ""]

\* rebuildItemsIndex: later items overwrite earlier ones with the same id
RebuildItemsIndex(its) ==
    [id \in {its[i].id : i \in 1..Len(its)} |->
        LET k == CHOOSE i \in 1..Len(its) :
                    its[i].id = id /\ \A j \in (i + 1)..Len(its) : its[j].id # id
        IN  its[k].oid]

\* the object an index entry points to
Deref(its, oid) ==
    IF \E i \in 1..Len(its) : its[i].oid = oid
    THEN its[CHOOSE i \in 1..Len(its) : its[i].oid = oid]
    ELSE NoItem

\* getItem(itemId): state.itemsById[itemId] || null
GetItem(its, idx, itemId) ==
    IF itemId \in DOMAIN idx THEN Deref(its, idx[itemId]) ELSE NoItem

\* getItemByName(name): case-insensitive, first occurrence, 0 when none
GetItemByName(its, name) ==
    FirstIdx({k \in 1..Len(its) : ToLowerCase(its[k].name) = ToLowerCase(name)})

\* ------------------------------------------------------------ shopping.js
\* a manual entry has no itemId property (undefined)
NoId == <<"undefined">>

QRec(num, unit, from) == [num |-> num, unit |-> unit, from |-> from]

\* the entry addToShoppingList's find returns: the FIRST entry that matches
\* by itemId or by (exact) name
ShoppingFind(list, item) ==
    FirstIdx({k \in 1..Len(list) :
                 list[k].itemId = item.id \/ list[k].name = item.name})

\* item.sources?.[0]?.store: "" stands for undefined (an item's sources are
\* modelled by their store names)
FirstStore(item) == IF Len(item.sources) > 0 THEN item.sources[1] ELSE ""

\* a mutant: the merge forgets to clear the checked flag
AddToShoppingListKeepChecked(list, item, quantity, from, unit) ==
    LET idx == ShoppingFind(list, item)
        rec == QRec(quantity, OrStr(unit, item.unit), from)
    IN  IF idx # 0
        THEN [list EXCEPT ![idx].quantities = Append(@, rec)]
        ELSE Append(list, [itemId |-> item.id, name |-> item.name,
                           unit |-> OrStr(unit, OrStr(item.unit, "item")),
                           store |-> OrStr(FirstStore(item), "Unknown"),
                           quantities |-> <<rec>>, checked |-> FALSE])

\* a mutant: the item's unit goes before the explicit unit
AddToShoppingListItemUnit(list, item, quantity, from, unit) ==
    LET idx == ShoppingFind(list, item)
        rec == QRec(quantity, OrStr(unit, item.unit), from)
    IN  IF idx # 0
        THEN [list EXCEPT ![idx].quantities = Append(@, rec),
                          ![idx].checked = FALSE]
        ELSE Append(list, [itemId |-> item.id, name |-> item.name,
                           unit |-> OrStr(item.unit, OrStr(unit, "item")),
                           store |-> OrStr(FirstStore(item), "Unknown"),
                           quantities |-> <<rec>>, checked |-> FALSE])

\* addToShoppingList(item, {quantity, from, unit})
AddToShoppingList(list, item, quantity, from, unit) ==
    LET idx == ShoppingFind(list, item)
        rec == QRec(quantity, OrStr(unit, item.unit), from)
    IN  IF idx # 0
        THEN [list EXCEPT ![idx].quantities = Append(@, rec),
                          ![idx].checked = FALSE]
        ELSE Append(list, [itemId |-> item.id, name |-> item.name,
                           unit |-> OrStr(unit, OrStr(item.unit, "item")),
                           store |-> OrStr(FirstStore(item), "Unknown"),
                           quantities |-> <<rec>>, checked |-> FALSE])

\* the entry addManualToShopping's find returns: case-insensitive name
ManualFind(list, name) ==
    FirstIdx({k \in 1..Len(list) : ToLowerCase(list[k].name) = ToLowerCase(name)})

\* addManualToShopping({name, quantity, unit})
AddManualToShopping(list, name, quantity, unit) ==
    LET idx == ManualFind(list, name)
        rec == QRec(quantity, unit, "Manual")
    IN  IF idx # 0
        THEN [list EXCEPT ![idx].quantities = Append(@, rec),
                          ![idx].checked = FALSE]
        ELSE Append(list, [itemId |-> NoId, name |-> name, unit |-> unit,
                           store |-> "",
                           quantities |-> <<rec>>, checked |-> FALSE])

\* the pending entry window.addSelectedToShoppingList builds for an item
\* selected in a bundle
PendingEntry(item, quantity, from) ==
    [itemId |-> item.id, name |-> item.name, unit |-> item.unit,
     store |-> OrStr(FirstStore(item), "Tesco"),
     quantities |-> <<QRec(quantity, item.unit, from)>>, checked |-> FALSE]

\* one round of finishAddingToShopping's forEach
FinishOne(list, item) ==
    LET idx == ManualFind(list, item.name)
    IN  IF idx # 0
        THEN [list EXCEPT ![idx].quantities = @ \o item.quantities,
                          ![idx].checked = FALSE]
        ELSE Append(list, item)

RECURSIVE FinishAddingToShopping(_, _)
\* finishAddingToShopping(bundles, items): the list after the forEach
FinishAddingToShopping(list, itemsToAdd) ==
    IF itemsToAdd = <<>> THEN list
    ELSE FinishAddingToShopping(FinishOne(list, Head(itemsToAdd)), Tail(itemsToAdd))

\* toggleShoppingChecked(index)
ToggleShoppingChecked(list, index) ==
    IF index >= 0 /\ index < Len(list)
    THEN [list EXCEPT ![index + 1].checked = ~@]
    ELSE list

\* removeShoppingItem(index)
RemoveShoppingItem(list, index) ==
    IF index >= 0 /\ index < Len(list) THEN RemoveAt(list, index + 1) ELSE list

\* clearCheckedItems()
ClearCheckedItems(list) == SelectSeq(list, LAMBDA s : ~s.checked)

\* incrementShoppingQty(index): (num || 1) + 1 on the first record
IncrementShoppingQty(list, index) ==
    IF ~(index >= 0 /\ index < Len(list)) THEN list
    ELSE LET item == list[index + 1]
         IN  IF Len(item.quantities) > 0
             THEN [list EXCEPT ![index + 1].quantities[1].num =
                       (IF @ = 0 THEN Scale ELSE @) + Scale]
             ELSE [list EXCEPT ![index + 1].quantities =
                       <<[num |-> 2 * Scale, unit |-> item.unit]>>]

\* a mutant: a quantity record that cannot go lower is taken off the entry
DecrementShoppingQtyDropping(list, index) ==
    IF ~(index >= 0 /\ index < Len(list)) THEN list
    ELSE LET item == list[index + 1]
         IN  IF Len(item.quantities) = 0 THEN list
             ELSE IF item.quantities[1].num > Scale
                  THEN [list EXCEPT ![index + 1].quantities[1].num = @ - Scale]
                  ELSE [list EXCEPT ![index + 1].quantities = Tail(@)]

\* decrementShoppingQty(index): if (qty.num > 1) qty.num--
DecrementShoppingQty(list, index) ==
    IF ~(index >= 0 /\ index < Len(list)) THEN list
    ELSE LET item == list[index + 1]
         IN  IF Len(item.quantities) = 0 THEN list
             ELSE IF item.quantities[1].num > Scale
                  THEN [list EXCEPT ![index + 1].quantities[1].num = @ - Scale]
                  ELSE list

\* updateShoppingUnit(index, unit)
UpdateShoppingUnit(list, index, unit) ==
    IF ~(index >= 0 /\ index < Len(list)) THEN list
    ELSE [list EXCEPT ![index + 1].unit = unit,
                      ![index + 1].quantities =
                          [k \in DOMAIN @ |-> [@[k] EXCEPT !.unit = unit]]]


\* --------------------------------------------- shopping list: the machine
\* the master items of the shopping-list specifications
ShopItems ==
    << [oid |-> 1, id |-> <<"m">>, name |-> <<"M">>, unit |-> "pint",
        sources |-> <<"Asda", "Tesco">>],
       [oid |-> 2, id |-> <<"c">>, name |-> <<"C">>, unit |-> "",
        sources |-> <<>>] >>

\* names typed by the user (manual entries, item renames)
ShopNames == {<<"M">>, <<"m">>, <<"C">>}

\* the `from` tag of entries promoted from a bundle: the bundle's name
FromTags == {"Dinner"}

\* indexes passed by the view's callbacks, with both out-of-range sides
ShopIndexes == (0 - 1)..MaxShop

RECURSIVE TotalRecs(_)
\* the number of quantity records in a list
TotalRecs(list) ==
    IF list = <<>> THEN 0 ELSE Len(Head(list).quantities) + TotalRecs(Tail(list))

\* the model's bounds on the shopping list
ShopWithin(list) ==
    /\ Len(list) <= MaxShop
    /\ TotalRecs(list) <= MaxRecs
    /\ \A i \in 1..Len(list) : \A k \in 1..Len(list[i].quantities) :
          list[i].quantities[k].num <= MaxNum * Scale

\* what the other specifications' variables hold in this one
IdleStore ==
    /\ bundles = <<>>
    /\ activities = <<>>
    /\ chores = <<>>
    /\ weeklyPlan = <<>>
    /\ formPending = <<>>

\* the selection state and the persistence state where a specification does
\* not use them (state.selectedBundles is never added to and is left out)
IdleUi ==
    /\ selectedItems = <<>>
    /\ expandedBundles = {}
    /\ daySelection = <<>>
    /\ rendered = <<>>
    /\ popup = <<>>
    /\ extension = <<>>
    /\ persisted = <<>>
    /\ saves = <<>>

UiFrame ==
    UNCHANGED <<selectedItems, expandedBundles, persisted, saves,
                daySelection, rendered, popup, extension>>

InitShop ==
    /\ items = ShopItems
    /\ itemsById = RebuildItemsIndex(ShopItems)
    /\ shopping = <<>>
    /\ IdleStore
    /\ IdleUi
    /\ last = NoHist

ShopFrame ==
    /\ UNCHANGED <<itemsById, bundles, activities, chores, weeklyPlan, formPending>>
    /\ UiFrame

\* a call of a shopping operator that yields list `new`; the history keeps
\* the calls the properties are about (the add operations)
ShopStep(op, arg, new) ==
    /\ ShopWithin(new)
    /\ shopping' = new
    /\ last' = Hist(op, arg, shopping)
    /\ UNCHANGED items
    /\ ShopFrame

\* a call of a shopping operator the history does not keep
ShopQuiet(new) ==
    /\ ShopWithin(new)
    /\ shopping' = new
    /\ last' = NoHist
    /\ UNCHANGED items
    /\ ShopFrame

AddToShoppingListAct ==
    \E i \in 1..Len(items), f \in FromTags :
        ShopStep("addToShoppingList",
                 [item |-> items[i], quantity |-> Scale, from |-> f],
                 AddToShoppingList(shopping, items[i], Scale, f, ""))

AddManualToShoppingAct ==
    \E n \in ShopNames :
        ShopStep("addManualToShopping", [name |-> n, quantity |-> Scale],
                 AddManualToShopping(shopping, n, Scale, "pint"))

\* the pending lists window.addSelectedToShoppingList can hand over: one
\* entry per selected item, names distinct up to letter case
PendingLists ==
    {p \in SeqUpTo(1..Len(items), Len(items)) :
        /\ Len(p) >= 1
        /\ \A a, b \in 1..Len(p) :
              a # b => ToLowerCase(items[p[a]].name) # ToLowerCase(items[p[b]].name)}

FinishAddingToShoppingAct ==
    \E p \in PendingLists, f \in FromTags :
        LET toAdd == [k \in 1..Len(p) |-> PendingEntry(items[p[k]], Scale, f)]
        IN  ShopStep("finishAddingToShopping", [items |-> toAdd],
                     FinishAddingToShopping(shopping, toAdd))

ToggleShoppingCheckedAct ==
    \E i \in ShopIndexes : ShopQuiet(ToggleShoppingChecked(shopping, i))

RemoveShoppingItemAct ==
    \E i \in ShopIndexes : ShopQuiet(RemoveShoppingItem(shopping, i))

ClearCheckedItemsAct == ShopQuiet(ClearCheckedItems(shopping))

\* window.updateItemField(itemId, 'name', value): renames the master item;
\* shopping entries keep the name they were created with
UpdateItemFieldAct ==
    \E i \in 1..Len(items), n \in ShopNames :
        /\ GetItem(items, itemsById, items[i].id) # NoItem
        /\ items' = [k \in 1..Len(items) |->
                        IF items[k].oid = itemsById[items[i].id]
                        THEN [items[k] EXCEPT !.name = n] ELSE items[k]]
        /\ last' = NoHist
        /\ UNCHANGED shopping
        /\ ShopFrame

NextShop ==
    \/ AddToShoppingListAct
    \/ AddManualToShoppingAct
    \/ FinishAddingToShoppingAct
    \/ ToggleShoppingCheckedAct
    \/ RemoveShoppingItemAct
    \/ ClearCheckedItemsAct
    \/ UpdateItemFieldAct

SpecShop == InitShop /\ [][NextShop]_vars


\* ------------------------------------------- shopping list: quantities
\* quantities a bundle reference or a manual entry may carry: 1 and 1 + 1/Scale
QtyInputs == {Scale, Scale + 1}

QtyAddToShoppingListAct ==
    \E q \in QtyInputs :
        ShopQuiet(AddToShoppingList(shopping, items[1], q, "Dinner", ""))

QtyAddManualToShoppingAct ==
    \E q \in QtyInputs : ShopQuiet(AddManualToShopping(shopping, <<"C">>, q, ""))

IncrementShoppingQtyAct ==
    \E i \in ShopIndexes : ShopQuiet(IncrementShoppingQty(shopping, i))

DecrementShoppingQtyAct ==
    \E i \in ShopIndexes : ShopQuiet(DecrementShoppingQty(shopping, i))

UpdateShoppingUnitAct ==
    \E i \in ShopIndexes : ShopQuiet(UpdateShoppingUnit(shopping, i, "kg"))

NextQty ==
    \/ QtyAddToShoppingListAct
    \/ QtyAddManualToShoppingAct
    \/ IncrementShoppingQtyAct
    \/ DecrementShoppingQtyAct
    \/ UpdateShoppingUnitAct
    \/ RemoveShoppingItemAct

SpecQty == InitShop /\ [][NextQty]_vars


\* ------------------------------------------------- properties: shopping
\* the entries of list l that addToShoppingList takes for `item`
ShopMatches(l, item) ==
    {k \in 1..Len(l) : l[k].itemId = item.id \/ l[k].name = item.name}

\* the record one addToShoppingList call with arguments a appends
AddedRec(a) == QRec(a.quantity, a.item.unit, a.from)

\* the last call was an addToShoppingList / addManualToShopping that merged
LastMerged ==
    /\ last.op \in {"addToShoppingList", "addManualToShopping"}
    /\ Len(shopping) = Len(last.pre)

LastAdded ==
    CASE last.op = "addToShoppingList" ->
             [id |-> last.arg.item.id, name |-> last.arg.item.name]
      [] last.op = "addManualToShopping" -> [id |-> NoId, name |-> last.arg.name]
      [] OTHER -> [id |-> last.arg.items[1].itemId, name |-> last.arg.items[1].name]

\* the entries of l whose name equals `name` up to letter case
CaseMatches(l, name) ==
    {k \in 1..Len(l) : ToLowerCase(l[k].name) = ToLowerCase(name)}

\* C2 (as claimed): on every add path, when an entry has the added name up
\* to letter case and no entry matches by itemId, the call merges into that
\* entry: the list keeps its length and the entry gains the added record.
C2_CaseInsensitiveOnEveryPath ==
    (\/ last.op \in {"addToShoppingList", "addManualToShopping"}
     \/ (last.op = "finishAddingToShopping" /\ Len(last.arg.items) = 1)) =>
        LET a == LastAdded
            byName == CaseMatches(last.pre, a.name)
            byId == {k \in 1..Len(last.pre) : a.id # NoId /\ last.pre[k].itemId = a.id}
        IN  (byName # {} /\ byId = {}) =>
                /\ Len(shopping) = Len(last.pre)
                /\ \E k \in byName :
                      Len(shopping[k].quantities) = Len(last.pre[k].quantities) + 1

\* C3 (as claimed): when an entry has the added item's id, addToShoppingList
\* merges into an entry with that id, wherever a name-only match stands.
C3_ItemIdTakesPrecedence ==
    last.op = "addToShoppingList" =>
        LET item == last.arg.item
            byId == {k \in 1..Len(last.pre) : last.pre[k].itemId = item.id}
        IN  byId # {} =>
                /\ Len(shopping) = Len(last.pre)
                /\ \E k \in byId :
                      shopping[k].quantities =
                          Append(last.pre[k].quantities, AddedRec(last.arg))

\* C9 (as claimed): every quantity enters the list at 1 or more, and no
\* sequence of increments and decrements takes a first record below 1.
C9_DecrementFloor ==
    \A i \in 1..Len(shopping) :
        Len(shopping[i].quantities) > 0 => shopping[i].quantities[1].num >= Scale


\* ------------------------------------------------------------ weekly plan
\* Array.prototype.splice(index, 1): a negative index counts from the end
\* (and is clamped at 0), an index at or past the end removes nothing
Splice1(s, index) ==
    LET start == IF index < 0 THEN Max(Len(s) + index, 0) ELSE index
    IN  IF start < Len(s) THEN RemoveAt(s, start + 1) ELSE s

\* the values of a slot state.weeklyPlan[type][key]: absent or null ("none"),
\* one reference object that is not in an array ("scalar", the legacy
\* format), an array of references ("list")
NoSlot == [kind |-> "none", refs |-> <<>>]

ScalarSlot(ref) == [kind |-> "scalar", refs |-> <<ref>>]

ListSlot(refs) == [kind |-> "list", refs |-> refs]

\* the plan reference { id, name } taken from an entity
PlanRef(entity) == [id |-> entity.id, name |-> entity.name]

\* entities.find(e => e.id === id): the position of the entity, 0 if none
FindById(entities, id) == FirstIdx({k \in 1..Len(entities) : entities[k].id = id})

\* list.find(r => r.id === id) on a slot's list
HasRef(refs, id) == \E k \in 1..Len(refs) : refs[k].id = id

\* the array a meal slot holds after addPlanItem's normalisation
NormalisedRefs(slot) == slot.refs

\* the duplicate-checked push shared by addPlanItem, addPlanItemSlot and
\* confirmDinnerDays
PushUnlessPresent(refs, entity) ==
    IF HasRef(refs, entity.id) THEN refs ELSE Append(refs, PlanRef(entity))

\* addPlanItem(type, day, bundleId)
AddPlanItem(plan, bnds, type, day, bundleId) ==
    LET b == FindById(bnds, bundleId)
    IN  IF bundleId = "" \/ b = 0 THEN plan
        ELSE [plan EXCEPT ![<<type, day>>] =
                 ListSlot(PushUnlessPresent(NormalisedRefs(@), bnds[b]))]

\* removePlanItem(type, day, index)
RemovePlanItem(plan, type, day, index) ==
    LET slot == plan[<<type, day>>]
    IN  CASE slot.kind = "none" -> plan
          [] slot.kind = "list" ->
                 [plan EXCEPT ![<<type, day>>] = ListSlot(Splice1(slot.refs, index))]
          [] OTHER -> [plan EXCEPT ![<<type, day>>] = NoSlot]

\* addPlanItemSlot(type, key, itemId), entities being state.activities or
\* state.chores according to type
AddPlanItemSlot(plan, entities, type, key, itemId) ==
    LET e == FindById(entities, itemId)
    IN  IF itemId = "" \/ e = 0 THEN plan
        ELSE [plan EXCEPT ![<<type, key>>] =
                 ListSlot(PushUnlessPresent(@.refs, entities[e]))]

\* removePlanItemSlot(type, key, index)
RemovePlanItemSlot(plan, type, key, index) ==
    LET slot == plan[<<type, key>>]
    IN  IF slot.kind = "none" THEN plan
        ELSE [plan EXCEPT ![<<type, key>>] = ListSlot(Splice1(slot.refs, index))]

\* toggleActivitySlot / toggleChoreSlot(id, day, time), key being day-time
ToggleSlot(plan, entities, type, key, id) ==
    LET refs == plan[<<type, key>>].refs
        idx == FirstIdx({k \in 1..Len(refs) : refs[k].id = id})
        e == FindById(entities, id)
    IN  [plan EXCEPT ![<<type, key>>] =
            ListSlot(IF idx # 0 THEN RemoveAt(refs, idx)
                     ELSE IF e # 0 THEN Append(refs, [id |-> id, name |-> entities[e].name])
                     ELSE refs)]

\* window.assignMeal(mealType, day) with the number parsed from the prompt's
\* answer: 0 clears the slot, 1..n pushes the n-th bundle of the category
\* with no duplicate check, anything else changes nothing
AssignMeal(plan, bnds, mealType, day, num) ==
    LET ofType == SelectSeq(bnds, LAMBDA b : b.category = mealType)
        slot == plan[<<mealType, day>>]
    IN  IF Len(ofType) = 0 THEN plan
        ELSE IF num = 0 THEN [plan EXCEPT ![<<mealType, day>>] = ListSlot(<<>>)]
        ELSE IF num > 0 /\ num <= Len(ofType)
        THEN [plan EXCEPT ![<<mealType, day>>] =
                 ListSlot(Append(IF slot.kind = "list" THEN slot.refs ELSE <<>>,
                                 PlanRef(ofType[num])))]
        ELSE plan

\* clearWeeklyPlan(): every type map is emptied
ClearWeeklyPlan(plan) == [k \in DOMAIN plan |-> NoSlot]

RECURSIVE ConfirmRow(_, _, _, _, _)
\* confirmDinnerDays: the checked boxes of one row, in the order of DAYS
ConfirmRow(plan, bnds, mealCategory, bundleId, days) ==
    IF days = <<>> THEN plan
    ELSE LET b == FindById(bnds, bundleId)
             next == [plan EXCEPT ![<<mealCategory, Head(days)>>] =
                         ListSlot(PushUnlessPresent(NormalisedRefs(@), bnds[b]))]
         IN  ConfirmRow(next, bnds, mealCategory, bundleId, Tail(days))

RECURSIVE ConfirmDinnerDays(_, _, _)
\* confirmDinnerDays(): the modal's rows, one per pending bundle; a row whose
\* bundle is no longer in state.bundles is skipped
ConfirmDinnerDays(plan, bnds, rows) ==
    IF rows = <<>> THEN plan
    ELSE LET row == Head(rows)
             next == IF FindById(bnds, row.bundleId) = 0 THEN plan
                     ELSE ConfirmRow(plan, bnds, row.mealCategory, row.bundleId, row.days)
         IN  ConfirmDinnerDays(next, bnds, Tail(rows))


\* --------------------------------------------- weekly plan: the machine
\* two of the plan's columns, in the order of the code's DAYS
DAYS == <<"mon", "tue">>

PlanBundles ==
    << [id |-> "h1", name |-> "Soap", category |-> "household", items |-> <<>>],
       [id |-> "b1", name |-> "Stew", category |-> "dinner", items |-> <<>>],
       [id |-> "b2", name |-> "Pie", category |-> "dinner", items |-> <<>>] >>

PlanActivities == << [id |-> "a1", name |-> "Run"], [id |-> "a2", name |-> "Swim"] >>

PlanChores == << [id |-> "c1", name |-> "Bins"] >>

MealSlots == {<<"dinner", DAYS[d]>> : d \in 1..Len(DAYS)}

ActivitySlot == <<"activities", "mon-am">>

ChoreSlot == <<"chores", "mon-am">>

PlanSlots == MealSlots \cup {ActivitySlot, ChoreSlot}

\* ids a caller passes: those of the planned entities, an id no entity has,
\* and the empty value of the "+" option
MealIds == {"b1", "b2", "zz", ""}

ActivityIds == {"a1", "a2", "zz", ""}

ChoreIds == {"c1", "zz", ""}

\* indexes passed to the remove operations, with both out-of-range sides
PlanIndexes == (0 - 1)..MaxSlot

\* the default plan: no slot holds anything
EmptyPlan == [k \in PlanSlots |-> NoSlot]

\* a plan loaded in the legacy format: one slot holds a bare reference
LegacyPlan ==
    [EmptyPlan EXCEPT ![<<"dinner", "mon">>] = ScalarSlot([id |-> "b1", name |-> "Stew"])]

PlanWithin(plan) == \A k \in DOMAIN plan : Len(plan[k].refs) <= MaxSlot

InitPlan ==
    /\ items = <<>>
    /\ itemsById = <<>>
    /\ bundles = PlanBundles
    /\ activities = PlanActivities
    /\ chores = PlanChores
    /\ shopping = <<>>
    /\ weeklyPlan \in {EmptyPlan, LegacyPlan}
    /\ formPending = <<>>
    /\ IdleUi
    /\ last = NoHist

PlanFrame ==
    /\ UNCHANGED <<items, itemsById, bundles, activities, chores, shopping, formPending>>
    /\ UiFrame

\* a slot-add call that yields plan `new`; the history keeps it
PlanStep(op, arg, new) ==
    /\ PlanWithin(new)
    /\ weeklyPlan' = new
    /\ last' = Hist(op, arg, weeklyPlan)
    /\ PlanFrame

\* a plan call the history does not keep
PlanQuiet(new) ==
    /\ PlanWithin(new)
    /\ weeklyPlan' = new
    /\ last' = NoHist
    /\ PlanFrame

AddPlanItemAct ==
    \E slot \in MealSlots, id \in MealIds :
        PlanStep("addPlanItem", [slot |-> slot, id |-> id],
                 AddPlanItem(weeklyPlan, bundles, slot[1], slot[2], id))

RemovePlanItemAct ==
    \E slot \in MealSlots, i \in PlanIndexes :
        PlanQuiet(RemovePlanItem(weeklyPlan, slot[1], slot[2], i))

AddPlanItemSlotActivityAct ==
    \E id \in ActivityIds :
        PlanStep("addPlanItemSlot", [slot |-> ActivitySlot, id |-> id],
                 AddPlanItemSlot(weeklyPlan, activities, ActivitySlot[1], ActivitySlot[2], id))

AddPlanItemSlotChoreAct ==
    \E id \in ChoreIds :
        PlanStep("addPlanItemSlot", [slot |-> ChoreSlot, id |-> id],
                 AddPlanItemSlot(weeklyPlan, chores, ChoreSlot[1], ChoreSlot[2], id))

RemovePlanItemSlotAct ==
    \E slot \in {ActivitySlot, ChoreSlot}, i \in PlanIndexes :
        /\ weeklyPlan' = RemovePlanItemSlot(weeklyPlan, slot[1], slot[2], i)
        /\ last' = Call("removePlanItemSlot", [slot |-> slot, index |-> i],
                        weeklyPlan[slot].refs)
        /\ PlanFrame

ToggleActivitySlotAct ==
    \E id \in ActivityIds \ {""} :
        PlanQuiet(ToggleSlot(weeklyPlan, activities, ActivitySlot[1], ActivitySlot[2], id))

ToggleChoreSlotAct ==
    \E id \in ChoreIds \ {""} :
        PlanQuiet(ToggleSlot(weeklyPlan, chores, ChoreSlot[1], ChoreSlot[2], id))

\* the rows of the day-selection modal: one per pending bundle, each with
\* the days whose boxes are checked, in the order of DAYS
ModalRows ==
    {[k \in 1..3 |-> [bundleId |-> <<"b1", "b2", "zz">>[k], mealCategory |-> "dinner",
                      days |-> SelectSeq(DAYS, LAMBDA d : d \in sel[k])]] :
        sel \in [1..3 -> SUBSET Range(DAYS)]}

ConfirmDinnerDaysAct ==
    \E rows \in ModalRows : PlanQuiet(ConfirmDinnerDays(weeklyPlan, bundles, rows))

\* the numbers parseInt yields from the prompt's answer (3: out of range)
AssignMealAct ==
    \E slot \in MealSlots, num \in 0..3 :
        PlanQuiet(AssignMeal(weeklyPlan, bundles, slot[1], slot[2], num))

ClearWeeklyPlanAct == PlanQuiet(ClearWeeklyPlan(weeklyPlan))

NextPlan ==
    \/ AddPlanItemAct
    \/ RemovePlanItemAct
    \/ AddPlanItemSlotActivityAct
    \/ AddPlanItemSlotChoreAct
    \/ RemovePlanItemSlotAct
    \/ ToggleActivitySlotAct
    \/ ToggleChoreSlotAct
    \/ ConfirmDinnerDaysAct
    \/ AssignMealAct
    \/ ClearWeeklyPlanAct

SpecPlan == InitPlan /\ [][NextPlan]_vars


\* --------------------------------------------- properties: weekly plan
\* how many references of a list carry the id
CountRefs(refs, id) == Cardinality({k \in 1..Len(refs) : refs[k].id = id})

\* the id names an entity of the collection the slot's type draws from
ExistingId(slot, id) ==
    CASE slot[1] = "activities" -> FindById(activities, id) # 0
      [] slot[1] = "chores" -> FindById(chores, id) # 0
      [] OTHER -> FindById(bundles, id) # 0

\* the last two calls were the same slot-add with an existing entity id
AddedTwice ==
    /\ last.op \in {"addPlanItem", "addPlanItemSlot"}
    /\ last.twice
    /\ ExistingId(last.arg.slot, last.arg.id)

\* C4 (as claimed): after two slot-adds in a row with the same existing id
\* the slot's list holds exactly one reference with that id, and the second
\* call left the plan as the first one made it.
C4_SlotAddIdempotent ==
    AddedTwice =>
        /\ CountRefs(weeklyPlan[last.arg.slot].refs, last.arg.id) = 1
        /\ weeklyPlan[last.arg.slot].kind = "list"
        /\ weeklyPlan = last.pre

\* C5 (as claimed): no slot's list holds two references with the same id.
C5_NoDuplicateInSlot ==
    \A k \in PlanSlots :
        \A a, b \in 1..Len(weeklyPlan[k].refs) :
            a # b => weeklyPlan[k].refs[a].id # weeklyPlan[k].refs[b].id


\* ------------------------------------------------------------ utils.js
\* the characters [a-z0-9] of the model's alphabet
AlnumChars == {"a", "b", "c", "m", "0", "1", "2", "3", "4", "5", "6", "7", "8", "9"}

RECURSIVE DropNonAlnum(_)
\* the rest of a string after a leading run of characters outside [a-z0-9]
DropNonAlnum(str) ==
    IF str # <<>> /\ Head(str) \notin AlnumChars THEN DropNonAlnum(Tail(str)) ELSE str

RECURSIVE ReplaceRuns(_)
\* replace(/[^a-z0-9]+/g, '-'): every run becomes one hyphen
ReplaceRuns(str) ==
    IF str = <<>> THEN <<>>
    ELSE IF Head(str) \in AlnumChars THEN <<Head(str)>> \o ReplaceRuns(Tail(str))
    ELSE <<"-">> \o ReplaceRuns(DropNonAlnum(str))

\* replace(/^-|-$/g, ''): one hyphen off the front, one off the end
TrimHyphens(str) ==
    LET front == IF str # <<>> /\ Head(str) = "-" THEN Tail(str) ELSE str
    IN  IF front # <<>> /\ front[Len(front)] = "-"
        THEN SubSeq(front, 1, Len(front) - 1) ELSE front

\* slugify(name)
Slugify(name) == TrimHyphens(ReplaceRuns(ToLowerCase(name)))

DigitChars == <<"0", "1", "2", "3", "4", "5", "6", "7", "8", "9">>

RECURSIVE NumberToString(_)
\* the decimal digits of a counter, as the template literal prints it
NumberToString(n) ==
    IF n < 10 THEN <<DigitChars[n + 1]>>
    ELSE NumberToString(n \div 10) \o <<DigitChars[(n % 10) + 1]>>

\* ------------------------------------------------------------ items.js
\* JavaScript's a || b on ids: the empty string is falsy
OrId(a, b) == IF a # <<>> THEN a ELSE b

\* the identity of a new object: one that no live object has
FreshOid(its, idx) ==
    LET used == {its[i].oid : i \in 1..Len(its)} \cup {idx[k] : k \in DOMAIN idx}
    IN  CHOOSE n \in 1..(Cardinality(used) + 1) :
            n \notin used /\ \A m \in 1..(n - 1) : m \in used

\* state.itemsById[id] = item
IndexPut(idx, id, oid) ==
    [k \in DOMAIN idx \cup {id} |-> IF k = id THEN oid ELSE idx[k]]

RECURSIVE FinalId(_, _, _, _)
\* addItem's loop: while (state.itemsById[finalId]) finalId = `${id}-${counter}`
FinalId(idx, id, finalId, counter) ==
    IF finalId \in DOMAIN idx
    THEN FinalId(idx, id, id \o <<"-">> \o NumberToString(counter), counter + 1)
    ELSE finalId

\* addItem(itemData): the items, the index and the item returned
AddItem(its, idx, itemData) ==
    LET id == OrId(itemData.id, Slugify(itemData.name))
        item == [oid |-> FreshOid(its, idx), id |-> FinalId(idx, id, id, 1),
                 name |-> itemData.name, unit |-> OrStr(itemData.unit, "item")]
    IN  [items |-> Append(its, item), index |-> IndexPut(idx, item.id, item.oid),
         ret |-> item]

\* deleteItem(itemId): the items and the index afterwards
DeleteItem(its, idx, itemId) ==
    LET index == FirstIdx({k \in 1..Len(its) : its[k].id = itemId})
    IN  IF index = 0 THEN [items |-> its, index |-> idx]
        ELSE [items |-> RemoveAt(its, index),
              index |-> [k \in DOMAIN idx \ {itemId} |-> idx[k]]]

\* a mutant: the lookup by name compares the names as they are
FindOrCreateItemExact(its, idx, name) ==
    LET found == FirstIdx({k \in 1..Len(its) : its[k].name = name})
    IN  IF found # 0 THEN [items |-> its, index |-> idx, ret |-> its[found]]
        ELSE AddItem(its, idx, [id |-> <<>>, name |-> name, unit |-> ""])

\* findOrCreateItem(name): the items, the index and the item returned
FindOrCreateItem(its, idx, name) ==
    LET found == FirstIdx({k \in 1..Len(its) :
                              ToLowerCase(its[k].name) = ToLowerCase(name)})
    IN  IF found # 0 THEN [items |-> its, index |-> idx, ret |-> its[found]]
        ELSE AddItem(its, idx, [id |-> <<>>, name |-> name, unit |-> ""])

\* ------------------------------------------------------------ bundles.js
\* a mutant: the reference is pushed without looking for an existing one
AddItemToBundlePushing(bnds, bundleId, itemId, quantity) ==
    LET b == FindById(bnds, bundleId)
    IN  IF b = 0 THEN bnds
        ELSE [bnds EXCEPT ![b].items =
                 Append(@, [itemId |-> itemId, quantity |-> quantity])]

\* addItemToBundle(bundleId, itemId, quantity)
AddItemToBundle(bnds, bundleId, itemId, quantity) ==
    LET b == FindById(bnds, bundleId)
        refs == bnds[b].items
        existing == FirstIdx({k \in 1..Len(refs) : refs[k].itemId = itemId})
    IN  IF b = 0 THEN bnds
        ELSE IF existing # 0
        THEN [bnds EXCEPT ![b].items[existing].quantity =
                 (IF @ = 0 THEN Scale ELSE @) + quantity]
        ELSE [bnds EXCEPT ![b].items =
                 Append(@, [itemId |-> itemId, quantity |-> quantity])]

\* removeItemFromBundle(bundleId, itemId): the bundles afterwards
RemoveItemFromBundle(bnds, bundleId, itemId) ==
    LET b == FindById(bnds, bundleId)
        refs == bnds[b].items
        index == FirstIdx({k \in 1..Len(refs) : refs[k].itemId = itemId})
    IN  IF b = 0 THEN bnds
        ELSE IF index = 0 THEN bnds
        ELSE [bnds EXCEPT ![b].items = RemoveAt(@, index)]

\* a mutant: the selection map is left as it is
RemoveFromSelectionKeeping(bnds, sel, bundleId, itemId) == sel

\* removeItemFromBundle(bundleId, itemId): the selection map afterwards
RemoveFromSelection(bnds, sel, bundleId, itemId) ==
    IF RemoveItemFromBundle(bnds, bundleId, itemId) = bnds THEN sel
    ELSE [k \in 1..Len(sel) |->
            IF sel[k].key = bundleId
            THEN [sel[k] EXCEPT !.ids = SelectSeq(@, LAMBDA id : id # itemId)]
            ELSE sel[k]]

\* getResolvedBundleItems(bundleId)
GetResolvedBundleItems(bnds, its, idx, bundleId) ==
    LET b == FindById(bnds, bundleId)
        refs == bnds[b].items
        mapped == [k \in 1..Len(refs) |->
                      [item |-> GetItem(its, idx, refs[k].itemId),
                       quantity |-> IF refs[k].quantity = 0 THEN Scale
                                    ELSE refs[k].quantity,
                       itemId |-> refs[k].itemId]]
    IN  IF b = 0 THEN <<>>
        ELSE SelectSeq(mapped, LAMBDA ri : ri.item # NoItem)

\* ------------------------------------------------ bundle form (modal.js)
RECURSIVE FormItems(_, _, _, _)
\* handleFormSubmit's loop over the editor's rows: the items, the index and
\* the bundle references collected
FormItems(its, idx, editorItems, bundleItems) ==
    IF editorItems = <<>>
    THEN [items |-> its, index |-> idx, bundleItems |-> bundleItems]
    ELSE LET editorItem == Head(editorItems)
             found == GetItemByName(its, editorItem.name)
             newId == Slugify(editorItem.name)
             item == IF found = 0
                     THEN [oid |-> FreshOid(its, idx), id |-> newId,
                           name |-> editorItem.name, unit |-> editorItem.unit]
                     ELSE [its[found] EXCEPT !.unit = OrStr(editorItem.unit, @)]
             ref == [itemId |-> item.id, quantity |-> editorItem.quantity]
         IN  IF found = 0
             THEN FormItems(Append(its, item), IndexPut(idx, newId, item.oid),
                            Tail(editorItems), Append(bundleItems, ref))
             ELSE FormItems([its EXCEPT ![found] = item], idx,
                            Tail(editorItems), Append(bundleItems, ref))

\* handleFormSubmit after `await saveItems()`: the bundle named by the form
\* is updated, or a new bundle with a generated id is pushed
FormBundles(bnds, form, newId) ==
    LET b == FindById(bnds, form.id)
    IN  IF form.id # ""
        THEN IF b = 0 THEN bnds
             ELSE [bnds EXCEPT ![b].name = form.name, ![b].category = form.category,
                               ![b].items = form.items]
        ELSE Append(bnds, [id |-> newId, name |-> form.name,
                           category |-> form.category, items |-> form.items])


\* --------------------------------------------- items and bundles: the machine
\* names typed by the user (trimmed, not empty): two that differ in letter
\* case only and one that differs from them in its separator
ItemNames == {<<"a", " ", "b">>, <<"A", " ", "b">>, <<"a", "-", "b">>}

\* the items a load can bring: none, or one item created by addItem before
LoadedItems ==
    {<<>>, <<[oid |-> 1, id |-> <<"a", "-", "b">>, name |-> <<"a", " ", "b">>,
              unit |-> "item"]>>}

\* the bundle the load brings
LoadedBundles ==
    << [id |-> "b1", name |-> "Stew", category |-> "dinner", items |-> <<>>] >>

\* item ids a caller passes to deleteItem: those of the items, and one no
\* item has
DeleteIds == {items[i].id : i \in 1..Len(items)} \cup {<<"z">>}

\* the ids generateId() gives to the bundles the form creates
GeneratedIds == <<"g1", "g2", "g3", "g4">>

\* the bundle ids the form's hidden field can carry ("": a new bundle)
FormIds == {"b1", ""}

\* what the bundle editor holds at a submit: one named ingredient with
\* quantity 1 and no unit typed
EditorRows == {<<r>> : r \in [name : ItemNames, quantity : {Scale}, unit : {""}]}

ItemsWithin(its, bnds) ==
    /\ Len(its) <= MaxItems
    /\ Len(bnds) <= MaxBundles
    /\ \A b \in 1..Len(bnds) :
          /\ Len(bnds[b].items) <= MaxRefs
          /\ \A k \in 1..Len(bnds[b].items) :
                bnds[b].items[k].quantity <= MaxNum * Scale

InitItems ==
    /\ items \in LoadedItems
    /\ itemsById = RebuildItemsIndex(items)
    /\ bundles = LoadedBundles
    /\ activities = <<>>
    /\ chores = <<>>
    /\ shopping = <<>>
    /\ weeklyPlan = <<>>
    /\ formPending = <<>>
    /\ IdleUi
    /\ last = NoHist

ItemsFrame ==
    /\ UNCHANGED <<activities, chores, shopping, weeklyPlan>>
    /\ UiFrame

\* the history of a call that returns an item: also the name as typed and
\* the item returned (typed, ret) and those of the same call just before
\* (typed2, ret2)
ItemHist(op, arg, pre, typed, ret) ==
    LET same == last.op = op /\ last.arg = arg
    IN  [op |-> op, arg |-> arg, pre |-> pre, twice |-> same,
         pre2 |-> IF same THEN last.pre ELSE pre,
         typed |-> typed, typed2 |-> IF same THEN last.typed ELSE typed,
         ret |-> ret, ret2 |-> IF same THEN last.ret ELSE ret]

\* window.addItemInline: addItem({name, category, unit})
AddItemInlineAct ==
    \E n \in ItemNames :
        LET r == AddItem(items, itemsById, [id |-> <<>>, name |-> n, unit |-> ""])
        IN  /\ ItemsWithin(r.items, bundles)
            /\ items' = r.items
            /\ itemsById' = r.index
            /\ last' = NoHist
            /\ UNCHANGED <<bundles, formPending>>
            /\ ItemsFrame

\* window.addImportedProduct: findOrCreateItem(p.name, ...)
AddImportedProductAct ==
    \E n \in ItemNames :
        LET r == FindOrCreateItem(items, itemsById, n)
        IN  /\ ItemsWithin(r.items, bundles)
            /\ items' = r.items
            /\ itemsById' = r.index
            /\ last' = ItemHist("findOrCreateItem", [name |-> ToLowerCase(n)],
                                items, n, r.ret)
            /\ UNCHANGED <<bundles, formPending>>
            /\ ItemsFrame

\* window.addItemToBundleInline(bundleId) up to `await saveItems()`:
\* findOrCreateItem; the rest of the handler is suspended
AddItemToBundleInlineAct ==
    \E n \in ItemNames, b \in 1..Len(bundles) :
        LET r == FindOrCreateItem(items, itemsById, n)
        IN  /\ formPending = <<>>
            /\ ItemsWithin(r.items, bundles)
            /\ items' = r.items
            /\ itemsById' = r.index
            /\ formPending' = <<[bundleId |-> bundles[b].id, itemId |-> r.ret.id,
                                 quantity |-> Scale]>>
            /\ last' = NoHist
            /\ UNCHANGED bundles
            /\ ItemsFrame

\* window.addItemToBundleInline from the resumption after
\* `await saveItems()`: addItemToBundle with the item found or created
AddItemToBundleInlineResumeAct ==
    /\ formPending # <<>>
    /\ "itemId" \in DOMAIN Head(formPending)
    /\ LET p == Head(formPending)
           bnds == AddItemToBundle(bundles, p.bundleId, p.itemId, p.quantity)
       IN  /\ ItemsWithin(items, bnds)
           /\ bundles' = bnds
    /\ formPending' = Tail(formPending)
    /\ last' = NoHist
    /\ UNCHANGED <<items, itemsById>>
    /\ ItemsFrame

\* window.deleteItemFromTab(itemId): deleteItem(itemId)
DeleteItemFromTabAct ==
    \E id \in DeleteIds :
        LET r == DeleteItem(items, itemsById, id)
        IN  /\ items' = r.items
            /\ itemsById' = r.index
            /\ last' = NoHist
            /\ UNCHANGED <<bundles, formPending>>
            /\ ItemsFrame

\* window.removeItemFromBundle(bundleId, itemId)
RemoveItemFromBundleAct ==
    \E b \in 1..Len(bundles) : \E k \in 1..Len(bundles[b].items) :
        /\ bundles' = RemoveItemFromBundle(bundles, bundles[b].id,
                                           bundles[b].items[k].itemId)
        /\ selectedItems' = RemoveFromSelection(bundles, selectedItems, bundles[b].id,
                                                bundles[b].items[k].itemId)
        /\ last' = NoHist
        /\ UNCHANGED <<items, itemsById, formPending, activities, chores,
                       shopping, weeklyPlan, expandedBundles, persisted, saves,
                daySelection, rendered, popup, extension>>

\* handleFormSubmit up to `await saveItems()`: the editor's items are found
\* or created; the rest of the handler is suspended
HandleFormSubmitWith(id) ==
    \E rows \in EditorRows :
        LET r == FormItems(items, itemsById, rows, <<>>)
        IN  /\ formPending = <<>>
            /\ id = "" => Len(bundles) < MaxBundles
            /\ ItemsWithin(r.items, bundles)
            /\ items' = r.items
            /\ itemsById' = r.index
            /\ formPending' = <<[id |-> id, name |-> "Stew", category |-> "dinner",
                                 items |-> r.bundleItems]>>
            /\ last' = NoHist
            /\ UNCHANGED bundles
            /\ ItemsFrame

\* the form submitted for an existing bundle
HandleFormSubmitEditAct == HandleFormSubmitWith("b1")

\* the form submitted for an existing or for a new bundle
HandleFormSubmitAct == \E id \in FormIds : HandleFormSubmitWith(id)

\* handleFormSubmit from the resumption after `await saveItems()`:
\* rebuildItemsIndex(), then the bundle is updated or created
HandleFormSubmitResumeAct ==
    /\ formPending # <<>>
    /\ "id" \in DOMAIN Head(formPending)
    /\ LET bnds == FormBundles(bundles, Head(formPending), GeneratedIds[Len(bundles)])
       IN  /\ ItemsWithin(items, bnds)
           /\ bundles' = bnds
    /\ itemsById' = RebuildItemsIndex(items)
    /\ formPending' = Tail(formPending)
    /\ last' = NoHist
    /\ UNCHANGED items
    /\ ItemsFrame

\* the handlers that create and delete items
NextItems ==
    \/ AddItemInlineAct
    \/ AddImportedProductAct
    \/ DeleteItemFromTabAct
    \/ HandleFormSubmitEditAct
    \/ HandleFormSubmitResumeAct

SpecItems == InitItems /\ [][NextItems]_vars

\* the handlers that change a bundle's references, and deleteItem
NextRefs ==
    \/ AddItemToBundleInlineAct
    \/ AddItemToBundleInlineResumeAct
    \/ RemoveItemFromBundleAct
    \/ DeleteItemFromTabAct
    \/ HandleFormSubmitAct
    \/ HandleFormSubmitResumeAct

SpecRefs == InitItems /\ [][NextRefs]_vars


\* --------------------------------------------- properties: items
\* the positions of the items whose name is `lower` up to letter case
NamedLike(its, lower) == {k \in 1..Len(its) : ToLowerCase(its[k].name) = lower}

\* C6: findOrCreateItem is idempotent.  After two calls in a row with the
\* same name up to letter case, both calls returned the same item (same
\* object, same id), the first added at most one item, the second added
\* none, and if no item had the name before the first call exactly one has
\* it now.
C6_FindOrCreateIdempotent ==
    (last.op = "findOrCreateItem" /\ last.twice) =>
        /\ last.ret = last.ret2
        /\ Len(last.pre) <= Len(last.pre2) + 1
        /\ items = last.pre
        /\ NamedLike(last.pre2, last.arg.name) = {} =>
              /\ Cardinality(NamedLike(items, last.arg.name)) = 1
              /\ \E k \in NamedLike(items, last.arg.name) : items[k] = last.ret

\* C6 witness: the first of the two calls created the item, and the second
\* call spelled the name in another letter case
C6_Witness ==
    /\ last.op = "findOrCreateItem"
    /\ last.twice
    /\ last.typed # last.typed2
    /\ NamedLike(last.pre2, last.arg.name) = {}
    /\ Len(items) = Len(last.pre2) + 1

\* C7 (as claimed): no two items of state.items share an id.
C7_ItemIdsUnique ==
    \A a, b \in 1..Len(items) : a # b => items[a].id # items[b].id

\* C8 (as claimed): the index has an entry for an id exactly when an item
\* with that id is in state.items, and the entry is that item.
C8_IndexIsImageOfItems ==
    /\ DOMAIN itemsById = {items[i].id : i \in 1..Len(items)}
    /\ \A i \in 1..Len(items) : itemsById[items[i].id] = items[i].oid

\* the ids of a list of references or of resolved references
RefIds(refs) == [k \in 1..Len(refs) |-> refs[k].itemId]

\* C10 (as claimed): for every bundle, getResolvedBundleItems returns the
\* bundle's references whose itemId is the id of an item of state.items, in
\* the bundle's order.
C10_ResolveSkipsOnlyDangling ==
    \A b \in 1..Len(bundles) :
        RefIds(GetResolvedBundleItems(bundles, items, itemsById, bundles[b].id)) =
            RefIds(SelectSeq(bundles[b].items,
                             LAMBDA r : \E i \in 1..Len(items) : items[i].id = r.itemId))


\* ------------------------------------------- bundles.js: selection state
\* Map.set(bundleId, ids): an existing key keeps its place, a new one goes last
MapSet(sel, bundleId, ids) ==
    LET i == FirstIdx({k \in 1..Len(sel) : sel[k].key = bundleId})
    IN  IF i # 0 THEN [sel EXCEPT ![i].ids = ids]
        ELSE Append(sel, [key |-> bundleId, ids |-> ids])

RECURSIVE NewSet(_)
\* new Set(array): the first occurrence of each value, in order
NewSet(s) ==
    IF s = <<>> THEN <<>>
    ELSE LET r == NewSet(SubSeq(s, 1, Len(s) - 1))
         IN  IF s[Len(s)] \in Range(r) THEN r ELSE Append(r, s[Len(s)])

\* updateBundle(bundleId, updates) with updates = {name}
UpdateBundle(bnds, bundleId, name) ==
    LET b == FindById(bnds, bundleId)
    IN  IF b = 0 THEN bnds ELSE [bnds EXCEPT ![b].name = name]

\* deleteBundle(bundleId): the bundles, the selection map, the expanded set
\* and the value returned
DeleteBundle(bnds, sel, expanded, bundleId) ==
    LET index == FindById(bnds, bundleId)
    IN  IF index = 0
        THEN [bundles |-> bnds, selectedItems |-> sel,
              expandedBundles |-> expanded, ret |-> FALSE]
        ELSE [bundles |-> RemoveAt(bnds, index),
              selectedItems |-> SelectSeq(sel, LAMBDA e : e.key # bundleId),
              expandedBundles |-> expanded \ {bundleId},
              ret |-> TRUE]

\* updateBundleItemQuantity(bundleId, itemId, quantity)
UpdateBundleItemQuantity(bnds, bundleId, itemId, quantity) ==
    LET b == FindById(bnds, bundleId)
        refs == bnds[b].items
        k == FirstIdx({j \in 1..Len(refs) : refs[j].itemId = itemId})
    IN  IF b = 0 THEN bnds
        ELSE IF k = 0 THEN bnds
        ELSE [bnds EXCEPT ![b].items[k].quantity = quantity]

\* toggleBundleExpand(bundleId)
ToggleBundleExpand(expanded, bundleId) ==
    IF bundleId \in expanded THEN expanded \ {bundleId}
    ELSE expanded \cup {bundleId}

\* toggleItemSelection(bundleId, itemId)
ToggleItemSelection(sel, bundleId, itemId) ==
    LET has == \E k \in 1..Len(sel) : sel[k].key = bundleId
        s0 == IF has THEN sel ELSE Append(sel, [key |-> bundleId, ids |-> <<>>])
        i == FirstIdx({k \in 1..Len(s0) : s0[k].key = bundleId})
    IN  [s0 EXCEPT ![i].ids = IF itemId \in Range(@)
                              THEN SelectSeq(@, LAMBDA id : id # itemId)
                              ELSE Append(@, itemId)]

\* selectAllBundleItems(bundleId)
SelectAllBundleItems(sel, bnds, bundleId) ==
    LET b == FindById(bnds, bundleId)
    IN  IF b = 0 THEN sel
        ELSE MapSet(sel, bundleId, NewSet(RefIds(bnds[b].items)))

\* deselectAllBundleItems(bundleId)
DeselectAllBundleItems(sel, bundleId) == MapSet(sel, bundleId, <<>>)

RECURSIVE GetSelectedItemCount(_)
\* getSelectedItemCount()
GetSelectedItemCount(sel) ==
    IF sel = <<>> THEN 0 ELSE Len(Head(sel).ids) + GetSelectedItemCount(Tail(sel))

\* -------------------------------------------- selection state: the machine
\* the bundles of the selection specifications: b1 holds a reference to an
\* item that does not exist, b2 a reference without a quantity
SelectBundles ==
    << [id |-> "b1", name |-> "Breakfast Bundle", category |-> "breakfast",
        items |-> << [itemId |-> <<"m">>, quantity |-> 2 * Scale],
                     [itemId |-> <<"x">>, quantity |-> Scale] >>],
       [id |-> "b2", name |-> "Dinner", category |-> "dinner",
        items |-> << [itemId |-> <<"c">>, quantity |-> 0],
                     [itemId |-> <<"m">>, quantity |-> Scale] >>] >>

\* bundle ids passed by callers: the two bundles and an id no bundle has
BundleArgs == {"b1", "b2", "zz"}

\* item ids passed by callers
ItemArgs == {<<"m">>, <<"c">>}

\* the bundle ids of the bundles
BundleIds(bnds) == {bnds[k].id : k \in 1..Len(bnds)}

\* the history keeps the calls made with an id no bundle has
UnknownCall(op, bundleId) ==
    IF bundleId \in BundleIds(bundles) THEN NoHist
    ELSE Call(op, [bundleId |-> bundleId], <<>>)

\* the model's bound on the selection
SelectWithin(sel) == GetSelectedItemCount(sel) <= MaxSel

InitSelect ==
    /\ items = ShopItems
    /\ itemsById = RebuildItemsIndex(ShopItems)
    /\ bundles = SelectBundles
    /\ activities = <<>>
    /\ chores = <<>>
    /\ shopping = <<>>
    /\ weeklyPlan = <<>>
    /\ formPending = <<>>
    /\ IdleUi
    /\ last = NoHist

\* what the selection handlers leave alone
SelectFrame ==
    UNCHANGED <<items, itemsById, activities, chores, shopping, weeklyPlan,
                formPending, persisted, saves,
                daySelection, rendered, popup, extension>>

\* window.toggleItemSelection(bundleId, itemId)
ToggleItemSelectionAct ==
    \E b \in BundleArgs, i \in ItemArgs :
        /\ selectedItems' = ToggleItemSelection(selectedItems, b, i)
        /\ SelectWithin(selectedItems')
        /\ last' = UnknownCall("toggleItemSelection", b)
        /\ UNCHANGED <<bundles, expandedBundles>>
        /\ SelectFrame

\* window.selectAllBundleItems(bundleId)
SelectAllBundleItemsAct ==
    \E b \in BundleArgs :
        /\ selectedItems' = SelectAllBundleItems(selectedItems, bundles, b)
        /\ SelectWithin(selectedItems')
        /\ last' = UnknownCall("selectAllBundleItems", b)
        /\ UNCHANGED <<bundles, expandedBundles>>
        /\ SelectFrame

\* window.deselectAllBundleItems(bundleId)
DeselectAllBundleItemsAct ==
    \E b \in BundleArgs :
        /\ selectedItems' = DeselectAllBundleItems(selectedItems, b)
        /\ last' = UnknownCall("deselectAllBundleItems", b)
        /\ UNCHANGED <<bundles, expandedBundles>>
        /\ SelectFrame

\* window.toggleBundleExpand(bundleId), from a rendered bundle
ToggleBundleExpandAct ==
    \E b \in 1..Len(bundles) :
        /\ expandedBundles' = ToggleBundleExpand(expandedBundles, bundles[b].id)
        /\ last' = NoHist
        /\ UNCHANGED <<bundles, selectedItems>>
        /\ SelectFrame

\* window.deleteBundle(bundleId): deleteBundle(bundleId)
DeleteBundleAct ==
    \E b \in BundleArgs :
        LET r == DeleteBundle(bundles, selectedItems, expandedBundles, b)
        IN  /\ bundles' = r.bundles
            /\ selectedItems' = r.selectedItems
            /\ expandedBundles' = r.expandedBundles
            /\ last' = Call("deleteBundle", [bundleId |-> b],
                            [selectedItems |-> selectedItems, ret |-> r.ret])
            /\ SelectFrame

\* the other bundle operations: removeItemFromBundle with any bundle id,
\* updateBundle, addItemToBundle and updateBundleItemQuantity with an id no
\* bundle has
BundleCallAct ==
    \E b \in BundleArgs, i \in ItemArgs :
      \E op \in {"removeItemFromBundle"} \cup
                (IF b \in BundleIds(bundles) THEN {}
                 ELSE {"updateBundle", "addItemToBundle", "updateBundleItemQuantity"}) :
        /\ bundles' =
             CASE op = "updateBundle" -> UpdateBundle(bundles, b, "Supper")
               [] op = "addItemToBundle" -> AddItemToBundle(bundles, b, i, Scale)
               [] op = "removeItemFromBundle" -> RemoveItemFromBundle(bundles, b, i)
               [] OTHER -> UpdateBundleItemQuantity(bundles, b, i, Scale)
        /\ selectedItems' =
             IF op = "removeItemFromBundle"
             THEN RemoveFromSelection(bundles, selectedItems, b, i)
             ELSE selectedItems
        /\ last' = UnknownCall(op, b)
        /\ UNCHANGED expandedBundles
        /\ SelectFrame

NextSelect ==
    \/ ToggleItemSelectionAct
    \/ SelectAllBundleItemsAct
    \/ DeselectAllBundleItemsAct
    \/ ToggleBundleExpandAct
    \/ DeleteBundleAct
    \/ BundleCallAct

SpecSelect == InitSelect /\ [][NextSelect]_vars

\* --------------------------------------------- properties: selection state
\* the selection map's entries for the given keys
EntriesOf(sel, keys) == SelectSeq(sel, LAMBDA e : e.key \in keys)

\* C11 (as claimed): after deleteBundle(b) has succeeded the selection map
\* has no key b, the expanded set does not contain b, the selection sets of
\* the other keys are what they were, and getSelectedItemCount() is the sum
\* of the selection-set sizes of the bundles that remain.
C11_DeletionCascade ==
    (last.op = "deleteBundle" /\ last.pre.ret) =>
        /\ \A k \in 1..Len(selectedItems) : selectedItems[k].key # last.arg.bundleId
        /\ last.arg.bundleId \notin expandedBundles
        /\ selectedItems =
              SelectSeq(last.pre.selectedItems,
                        LAMBDA e : e.key # last.arg.bundleId)
        /\ GetSelectedItemCount(selectedItems) =
              GetSelectedItemCount(EntriesOf(selectedItems, BundleIds(bundles)))

\* C14 (as claimed): a bundle operation called with an id no bundle has
\* leaves the collections, the index, the weekly plan and the selection
\* state as they were.
C14_UnknownIdIsNoOp ==
    [][(last'.op # "init" /\ last'.arg.bundleId \notin BundleIds(bundles))
          => UNCHANGED <<items, itemsById, bundles, activities, chores,
                         shopping, weeklyPlan, selectedItems, expandedBundles>>]_vars


\* ------------------------------------- shopping.js: addSelectedToShopping
RECURSIVE SelectedPairs(_)
\* the (bundleId, itemId) pairs in the order the two forEach loops visit them
SelectedPairs(sel) ==
    IF sel = <<>> THEN <<>>
    ELSE [k \in 1..Len(Head(sel).ids) |->
             [bundleId |-> Head(sel).key, itemId |-> Head(sel).ids[k]]]
         \o SelectedPairs(Tail(sel))

RECURSIVE AddSelectedPairs(_, _, _, _, _, _)
\* the body of the loops for the pairs still to visit: the shopping list
\* and addedItems
AddSelectedPairs(list, added, pairs, bnds, its, idx) ==
    IF pairs = <<>> THEN [shopping |-> list, ret |-> added]
    ELSE LET p == Head(pairs)
             b == FindById(bnds, p.bundleId)
             refs == bnds[b].items
             bi == FirstIdx({k \in 1..Len(refs) : refs[k].itemId = p.itemId})
             item == GetItem(its, idx, p.itemId)
             quantity == IF refs[bi].quantity = 0 THEN Scale ELSE refs[bi].quantity
         IN  IF b = 0 THEN AddSelectedPairs(list, added, Tail(pairs), bnds, its, idx)
             ELSE IF bi = 0
             THEN AddSelectedPairs(list, added, Tail(pairs), bnds, its, idx)
             ELSE IF item = NoItem
             THEN AddSelectedPairs(list, added, Tail(pairs), bnds, its, idx)
             ELSE AddSelectedPairs(
                      AddToShoppingList(list, item, quantity, bnds[b].name, ""),
                      Append(added, [item |-> item, quantity |-> quantity,
                                     from |-> bnds[b].name]),
                      Tail(pairs), bnds, its, idx)

\* a mutant: only the first bundle of the selection is promoted
AddSelectedToShoppingFirstOnly(list, sel, bnds, its, idx) ==
    AddSelectedPairs(list, <<>>,
                     SelectedPairs(IF sel = <<>> THEN <<>> ELSE <<Head(sel)>>),
                     bnds, its, idx)

\* addSelectedToShopping(): the shopping list and the value returned (the
\* selection is cleared by the caller of this operator)
AddSelectedToShopping(list, sel, bnds, its, idx) ==
    AddSelectedPairs(list, <<>>, SelectedPairs(sel), bnds, its, idx)

\* ------------------------------------------- promoting a selection: machine
\* the explicit unit a caller of addToShoppingList passes ("": none)
UnitArgs == {"", "kg"}

\* item c comes without sources, or with a first source that has no store
InitPromote ==
    /\ \E src \in {<<>>, <<"">>} : items = [ShopItems EXCEPT ![2].sources = src]
    /\ itemsById = RebuildItemsIndex(ShopItems)
    /\ bundles = SelectBundles
    /\ activities = <<>>
    /\ chores = <<>>
    /\ shopping = <<>>
    /\ weeklyPlan = <<>>
    /\ formPending = <<>>
    /\ IdleUi
    /\ last = NoHist

\* addSelectedToShopping()
AddSelectedToShoppingAct ==
    LET r == AddSelectedToShopping(shopping, selectedItems, bundles, items, itemsById)
    IN  /\ ShopWithin(r.shopping)
        /\ shopping' = r.shopping
        /\ selectedItems' = <<>>
        /\ last' = Call("addSelectedToShopping", <<>>,
                        [shopping |-> shopping, selectedItems |-> selectedItems,
                         ret |-> r.ret])
        /\ UNCHANGED <<items, itemsById, bundles, activities, chores, weeklyPlan,
                       formPending, expandedBundles, persisted, saves,
                daySelection, rendered, popup, extension>>

\* addToShoppingList(item, {quantity, from, unit}) with an explicit unit
AddToShoppingListUnitAct ==
    \E i \in 1..Len(items), u \in UnitArgs :
        LET new == AddToShoppingList(shopping, items[i], Scale, "Tea", u)
        IN  /\ ShopWithin(new)
            /\ shopping' = new
            /\ last' = Call("addToShoppingList",
                            [item |-> items[i], quantity |-> Scale,
                             from |-> "Tea", unit |-> u],
                            [shopping |-> shopping])
            /\ UNCHANGED <<items, itemsById, bundles, activities, chores, weeklyPlan,
                           formPending, selectedItems, expandedBundles, persisted,
                           saves,
                daySelection, rendered, popup, extension>>

NextPromote ==
    \/ ToggleItemSelectionAct
    \/ SelectAllBundleItemsAct
    \/ AddSelectedToShoppingAct

SpecPromote == InitPromote /\ [][NextPromote]_vars

\* new entries: whole bundles are selected and promoted, items are added
\* with and without an explicit unit, entries are removed
NextEntry ==
    \/ SelectAllBundleItemsAct
    \/ AddSelectedToShoppingAct
    \/ AddToShoppingListUnitAct
    \/ RemoveShoppingItemAct

SpecEntry == InitPromote /\ [][NextEntry]_vars

\* --------------------------------------------- properties: promotion
\* the selected pairs that resolve to a bundle, a reference of that bundle
\* and an item, each with the tuple addSelectedToShopping owes for it
Resolving(sel) ==
    {[item |-> items[i], quantity |-> bundles[b].items[r].quantity,
      from |-> bundles[b].name, bundleId |-> bundles[b].id] :
        <<b, r, i>> \in {t \in (1..Len(bundles)) \X (1..MaxRefs) \X (1..Len(items)) :
            /\ t[2] <= Len(bundles[t[1]].items)
            /\ bundles[t[1]].items[t[2]].itemId = items[t[3]].id
            /\ \E k \in 1..Len(sel) :
                  /\ sel[k].key = bundles[t[1]].id
                  /\ items[t[3]].id \in Range(sel[k].ids)}}

\* the quantity records of the list's entries for `item` with this num and
\* from tag
RecsOf(list, item, num, from) ==
    {<<e, k>> \in (1..Len(list)) \X (1..MaxRecs) :
        /\ list[e].itemId = item.id
        /\ k <= Len(list[e].quantities)
        /\ list[e].quantities[k].num = num
        /\ list[e].quantities[k].from = from}

\* a bundle-item quantity as promoted: a reference without one counts 1
Promoted(quantity) == IF quantity = 0 THEN Scale ELSE quantity

\* C12: after addSelectedToShopping() the shopping list holds one more
\* quantity record per selected pair that resolves (with the bundle-item
\* quantity and the bundle's name as from tag), the call returned one tuple
\* per such pair, and the selection state is empty.
C12_PromoteSelected ==
    last.op = "addSelectedToShopping" =>
        LET res == Resolving(last.pre.selectedItems)
            ret == last.pre.ret
        IN  /\ selectedItems = <<>>
            /\ GetSelectedItemCount(selectedItems) = 0
            /\ Len(ret) = Cardinality(res)
            /\ {[item |-> t.item, quantity |-> Promoted(t.quantity), from |-> t.from] :
                    t \in res} = Range(ret)
            /\ TotalRecs(shopping) = TotalRecs(last.pre.shopping) + Cardinality(res)
            /\ \A t \in res :
                  Cardinality(RecsOf(shopping, t.item, Promoted(t.quantity), t.from)) =
                      Cardinality(RecsOf(last.pre.shopping, t.item,
                                         Promoted(t.quantity), t.from))
                      + Cardinality({u \in res :
                            /\ u.item = t.item
                            /\ u.from = t.from
                            /\ Promoted(u.quantity) = Promoted(t.quantity)})

\* C12 witness: a selection of two bundles was promoted, one of its pairs
\* resolved and another did not
C12_Witness ==
    /\ last.op = "addSelectedToShopping"
    /\ Len(last.pre.selectedItems) >= 2
    /\ Cardinality(Resolving(last.pre.selectedItems)) >= 1
    /\ Cardinality(Resolving(last.pre.selectedItems)) <
          GetSelectedItemCount(last.pre.selectedItems)

\* C13: when addToShoppingList adds an item that matches no entry, the list
\* grows by exactly one entry, put last, with the item's id and name,
\* checked = false, exactly one quantity record {num, unit, from}, the
\* entry's unit chosen as the explicit unit, else the item's unit, else
\* "item", and the store of the item's first source, else "Unknown".
\* Promoting the selected Breakfast Bundle (Milk, unit pint, quantity 2, and
\* a reference to no item) into an empty list yields one entry with the
\* quantities [{num: 2, unit: "pint", from: "Breakfast Bundle"}].
C13_NewEntryShape ==
  /\ (last.op = "addSelectedToShopping" /\ last.pre.shopping = <<>>
        /\ last.pre.selectedItems = <<[key |-> "b1", ids |-> <<<<"m">>, <<"x">>>>]>>)
     => /\ Len(shopping) = 1
        /\ shopping[1].itemId = <<"m">>
        /\ shopping[1].quantities = <<QRec(2 * Scale, "pint", "Breakfast Bundle")>>
  /\ (last.op = "addToShoppingList" /\ ShopMatches(last.pre.shopping, last.arg.item) = {})
    =>  LET a == last.arg
            e == shopping[Len(shopping)]
        IN  /\ Len(shopping) = Len(last.pre.shopping) + 1
            /\ SubSeq(shopping, 1, Len(last.pre.shopping)) = last.pre.shopping
            /\ e.itemId = a.item.id
            /\ e.name = a.item.name
            /\ ~e.checked
            /\ Len(e.quantities) = 1
            /\ e.quantities[1].num = a.quantity
            /\ e.quantities[1].from = a.from
            /\ e.quantities[1].unit =
                  (IF a.unit # "" THEN a.unit ELSE a.item.unit)
            /\ e.unit = (IF a.unit # "" THEN a.unit
                         ELSE IF a.item.unit # "" THEN a.item.unit ELSE "item")
            /\ e.store = (IF a.item.sources # <<>> /\ a.item.sources[1] # ""
                          THEN a.item.sources[1] ELSE "Unknown")

\* C13 witness: an item without unit and without a store was added as a new
\* entry, with no explicit unit
C13_Witness ==
    /\ last.op = "addToShoppingList"
    /\ ShopMatches(last.pre.shopping, last.arg.item) = {}
    /\ last.arg.unit = ""
    /\ last.arg.item.unit = ""
    /\ shopping[Len(shopping)].store = "Unknown"
    /\ Len(last.pre.shopping) > 0


\* --------------------------------------------- properties: timed slots
\* C15 (as claimed): removePlanItemSlot with an index that is negative or
\* not less than the length of the slot's list leaves the list as it was;
\* with an index in range it removes the reference at that position and
\* keeps the others in order.
C15_RemoveIsBoundsChecked ==
    last.op = "removePlanItemSlot" =>
        LET before == last.pre
            now == weeklyPlan[last.arg.slot].refs
            i == last.arg.index
        IN  IF i < 0 \/ i >= Len(before) THEN now = before
            ELSE now = RemoveAt(before, i + 1)


\* ------------------------------------------------ api.js: saving a resource
\* saveShopping() / saveWeeklyPlan() -> saveData(endpoint, data): the request
\* carries JSON.stringify(data) as of the call.  A request also records
\* whether the resource has been left alone since (fresh), whether the
\* storage applied it (applied) and whether it was the last one applied to
\* its resource (latest).
SaveData(q, resource, data, handler, awaited) ==
    Append(q, [resource |-> resource, body |-> data, status |-> "sent",
               handler |-> handler, awaited |-> awaited,
               fresh |-> TRUE, applied |-> FALSE, latest |-> FALSE])

\* a mutant: a failed request is reported as a success
SaveDataReturnsTrue(q, k, ok) == [q EXCEPT ![k].status = "ok"]

\* saveData's result for request k: true after an ok response, false (and
\* an alert, no exception) after a failure
SaveDataReturns(q, k, ok) ==
    [q EXCEPT ![k].status = IF ok THEN "ok" ELSE "failed"]

\* the persistence service stores the body of a request under its resource
Store(store, request) == [store EXCEPT ![request.resource] = request.body]

\* bookkeeping: request k has been applied, after every other request
Applied(q, k) ==
    [j \in 1..Len(q) |->
        IF j = k THEN [q[j] EXCEPT !.applied = TRUE, !.latest = TRUE]
        ELSE IF q[j].resource = q[k].resource THEN [q[j] EXCEPT !.latest = FALSE]
        ELSE q[j]]

\* bookkeeping: a handler has changed the resource
Mutated(q, resource, changed) ==
    [j \in 1..Len(q) |->
        IF changed /\ q[j].resource = resource THEN [q[j] EXCEPT !.fresh = FALSE]
        ELSE q[j]]

\* -------------------------------------------------- saving: the machine
\* the shopping list of a load: one entry
SavedShopping == AddManualToShopping(<<>>, <<"M">>, Scale, "pint")

\* the in-memory value of a resource
Memory(resource) == IF resource = "shopping" THEN shopping ELSE weeklyPlan

InitSave ==
    /\ items = <<>>
    /\ itemsById = <<>>
    /\ bundles = PlanBundles
    /\ activities = PlanActivities
    /\ chores = PlanChores
    /\ shopping = SavedShopping
    /\ weeklyPlan = EmptyPlan
    /\ formPending = <<>>
    /\ selectedItems = <<>>
    /\ expandedBundles = {}
    /\ daySelection = <<>>
    /\ rendered = <<>>
    /\ popup = <<>>
    /\ extension = <<>>
    /\ persisted = [shopping |-> SavedShopping, weeklyPlan |-> EmptyPlan]
    /\ saves = <<>>
    /\ last = NoHist

SaveFrame ==
    UNCHANGED <<items, itemsById, bundles, activities, chores, formPending,
                selectedItems, expandedBundles,
                daySelection, rendered, popup, extension>>

\* a mutant: the save is issued before the mutation
WindowToggleShoppingCheckedSaveFirst ==
    \E i \in 0..1 :
        LET new == ToggleShoppingChecked(shopping, i)
        IN  /\ Len(saves) < MaxSaves
            /\ shopping' = new
            /\ saves' = SaveData(Mutated(saves, "shopping", new # shopping),
                                 "shopping", shopping, "toggleShoppingChecked", TRUE)
            /\ last' = NoHist
            /\ UNCHANGED <<weeklyPlan, persisted>>
            /\ SaveFrame

\* window.toggleShoppingChecked(index) up to `await saveShopping()`
WindowToggleShoppingCheckedAct ==
    \E i \in 0..1 :
        LET new == ToggleShoppingChecked(shopping, i)
        IN  /\ Len(saves) < MaxSaves
            /\ shopping' = new
            /\ saves' = SaveData(Mutated(saves, "shopping", new # shopping),
                                 "shopping", new, "toggleShoppingChecked", TRUE)
            /\ last' = NoHist
            /\ UNCHANGED <<weeklyPlan, persisted>>
            /\ SaveFrame

\* window.assignMeal(mealType, day): saveWeeklyPlan() is not awaited and
\* renderWeeklyPlan() follows at once
WindowAssignMealAct ==
    \E num \in 0..1 :
        LET new == AssignMeal(weeklyPlan, bundles, "dinner", "mon", num)
        IN  /\ Len(saves) < MaxSaves
            /\ PlanWithin(new)
            /\ weeklyPlan' = new
            /\ saves' = SaveData(Mutated(saves, "weeklyPlan", new # weeklyPlan),
                                 "weeklyPlan", new, "assignMeal", FALSE)
            /\ last' = Call("render", [handler |-> "assignMeal"], Len(saves'))
            /\ UNCHANGED <<shopping, persisted>>
            /\ SaveFrame

\* the service receives request k (requests in flight arrive in any order),
\* stores it and answers ok
ServerApplyAct ==
    \E k \in 1..Len(saves) :
        /\ saves[k].status = "sent"
        /\ persisted' = Store(persisted, saves[k])
        /\ saves' = SaveDataReturns(Applied(saves, k), k, TRUE)
        /\ last' = NoHist
        /\ UNCHANGED <<shopping, weeklyPlan>>
        /\ SaveFrame

\* request k fails: fetch rejects or the response is not ok
FetchFailAct ==
    \E k \in 1..Len(saves) :
        /\ saves[k].status = "sent"
        /\ saves' = SaveDataReturns(saves, k, FALSE)
        /\ last' = NoHist
        /\ UNCHANGED <<shopping, weeklyPlan, persisted>>
        /\ SaveFrame

\* the handler that issued request k goes on after its await: it renders,
\* whatever saveData returned; the result of a save nobody awaits is dropped
HandlerResumeAct ==
    \E k \in 1..Len(saves) :
        /\ saves[k].status # "sent"
        /\ saves' = RemoveAt(saves, k)
        /\ last' = IF saves[k].awaited
                   THEN Call("render", [handler |-> saves[k].handler], 0)
                   ELSE NoHist
        /\ UNCHANGED <<shopping, weeklyPlan, persisted>>
        /\ SaveFrame

NextSave ==
    \/ WindowToggleShoppingCheckedAct
    \/ WindowAssignMealAct
    \/ ServerApplyAct
    \/ FetchFailAct
    \/ HandlerResumeAct

SpecSave == InitSave /\ [][NextSave]_vars

\* --------------------------------------------- properties: saving
\* no request of the resource is in flight
NoneInFlight(resource) ==
    \A j \in 1..Len(saves) :
        saves[j].resource = resource => saves[j].status # "sent"

C17_Reconverge ==
    \A k \in 1..Len(saves) :
        (saves[k].status = "ok" /\ saves[k].fresh /\ NoneInFlight(saves[k].resource))
            => persisted[saves[k].resource] = Memory(saves[k].resource)

\* C17 (amended): the same, for a save that the storage applied after every
\* other save of the resource.
C17_ReconvergeInOrder ==
    \A k \in 1..Len(saves) :
        (/\ saves[k].status = "ok"
         /\ saves[k].fresh
         /\ saves[k].latest
         /\ NoneInFlight(saves[k].resource))
            => persisted[saves[k].resource] = Memory(saves[k].resource)

\* C17 witness: two saves of the shopping list overlapped, the storage
\* applied them in the order issued and the later one brought the storage
\* back in line with memory
C17_Witness ==
    /\ Len(saves) = 2
    /\ saves[1].resource = "shopping" /\ saves[2].resource = "shopping"
    /\ saves[1].status = "ok" /\ saves[2].status = "ok"
    /\ saves[1].body # saves[2].body
    /\ saves[2].fresh /\ saves[2].latest
    /\ persisted.shopping = shopping

\* C18 (as claimed): a handler's save carries the state after the handler's
\* mutation, and when a handler renders, the save it issued is no longer in
\* flight.
C18_SaveThenRender ==
    /\ \A k \in 1..Len(saves) :
          (saves[k].status = "sent" /\ saves[k].fresh)
              => saves[k].body = Memory(saves[k].resource)
    /\ last.op = "render" => (last.pre = 0 \/ saves[last.pre].status # "sent")


\* --------------------------------------------- properties: suspension
\* C19 (as claimed): a handler has applied all of its mutations when it is
\* suspended at a save, so no step of another handler comes between two
\* parts of one operation's mutation: from a state in which a handler is
\* suspended with a part of its mutation still to apply, the only step is
\* that handler's own continuation.
C19_MutationsBeforeAwait ==
    [][formPending # <<>> => formPending' = <<>>]_vars


\* ------------------------------------ the plan and the planned entities
\* deleteActivity(id) / deleteChore(id), confirmed: findIndex and splice
DeleteEntity(entities, id) ==
    LET idx == FindById(entities, id)
    IN  IF idx # 0 THEN RemoveAt(entities, idx) ELSE entities

InitSnap ==
    /\ items = <<>>
    /\ itemsById = <<>>
    /\ bundles = PlanBundles
    /\ activities = PlanActivities
    /\ chores = PlanChores
    /\ shopping = <<>>
    /\ weeklyPlan = EmptyPlan
    /\ formPending = <<>>
    /\ IdleUi
    /\ last = NoHist

\* what the entity handlers leave alone
SnapFrame ==
    /\ UNCHANGED <<items, itemsById, shopping, weeklyPlan, formPending>>
    /\ UiFrame

\* updateBundle(bundleId, {name}): a rename
UpdateBundleAct ==
    \E b \in BundleArgs :
        /\ bundles' = UpdateBundle(bundles, b, "Hotpot")
        /\ last' = NoHist
        /\ UNCHANGED <<activities, chores>>
        /\ SnapFrame

\* a mutant: deleting an activity also takes its references off the plan
DeleteActivityCascadeAct ==
    \E id \in ActivityIds :
        /\ activities' = DeleteEntity(activities, id)
        /\ weeklyPlan' = [k \in DOMAIN weeklyPlan |->
                            [weeklyPlan[k] EXCEPT
                                !.refs = SelectSeq(@, LAMBDA r : r.id # id)]]
        /\ last' = NoHist
        /\ UNCHANGED <<bundles, chores, items, itemsById, shopping, formPending>>
        /\ UiFrame

\* deleteActivity(activityId)
DeleteActivityAct ==
    \E id \in ActivityIds :
        /\ activities' = DeleteEntity(activities, id)
        /\ last' = NoHist
        /\ UNCHANGED <<bundles, chores>>
        /\ SnapFrame

\* deleteChore(choreId)
DeleteChoreAct ==
    \E id \in ChoreIds :
        /\ chores' = DeleteEntity(chores, id)
        /\ last' = NoHist
        /\ UNCHANGED <<bundles, activities>>
        /\ SnapFrame

\* the plan operations that schedule an entity: addPlanItem('dinner', 'mon',
\* bundleId) and addPlanItemSlot on the activity and on the chore slot
SchedulePlanItemAct ==
    \E op \in {"addPlanItem", "addActivity", "addChore"} :
        LET new == CASE op = "addPlanItem" ->
                           AddPlanItem(weeklyPlan, bundles, "dinner", "mon", "b1")
                     [] op = "addActivity" ->
                           AddPlanItemSlot(weeklyPlan, activities, ActivitySlot[1],
                                           ActivitySlot[2], "a1")
                     [] OTHER ->
                           AddPlanItemSlot(weeklyPlan, chores, ChoreSlot[1],
                                           ChoreSlot[2], "c1")
        IN  /\ PlanWithin(new)
            /\ weeklyPlan' = new
            /\ last' = Call(IF op = "addPlanItem" THEN op ELSE "addPlanItemSlot",
                            <<>>, <<>>)
            /\ PlanFrame

NextSnap ==
    \/ SchedulePlanItemAct
    \/ UpdateBundleAct
    \/ DeleteBundleAct
    \/ DeleteActivityAct
    \/ DeleteChoreAct
    \/ HandleFormSubmitEditAct
    \/ HandleFormSubmitResumeAct

SpecSnap == InitSnap /\ [][NextSnap]_vars

\* --------------------------------------------- properties: snapshots
\* the operations of the weekly plan
PlanOps == {"addPlanItem", "addPlanItemSlot", "removePlanItemSlot"}

\* C20: a step that renames or deletes a bundle, an activity or a chore
\* (updateBundle, deleteBundle, deleteActivity, deleteChore, the bundle
\* form's submit) leaves the weekly plan, with every {id, name} entry
\* scheduled in it, unchanged; a step that changes the plan is a step of a
\* plan operation.
C20_PlanRefsAreSnapshots ==
    [][/\ (bundles' # bundles \/ activities' # activities \/ chores' # chores
             \/ items' # items)
          => weeklyPlan' = weeklyPlan
       /\ weeklyPlan' # weeklyPlan => last'.op \in PlanOps]_vars

\* C20 witness: the plan holds an entry for a bundle that has another name
\* by now and an entry for an activity that has been deleted
C20_Witness ==
    /\ \E k \in MealSlots : \E r \in Range(weeklyPlan[k].refs) :
          \E b \in 1..Len(bundles) : bundles[b].id = r.id /\ bundles[b].name # r.name
    /\ \E r \in Range(weeklyPlan[ActivitySlot].refs) : FindById(activities, r.id) = 0


\* ------------------------------------- shopping list: every mutator at once
\* finishAddingToShopping(bundles, items) with the pending entries of the
\* selected items
QtyFinishAddingToShoppingAct ==
    \E p \in PendingLists :
        ShopQuiet(FinishAddingToShopping(shopping,
            [k \in 1..Len(p) |-> PendingEntry(items[p[k]], Scale, "Dinner")]))

NextRecs ==
    \/ QtyAddToShoppingListAct
    \/ QtyAddManualToShoppingAct
    \/ QtyFinishAddingToShoppingAct
    \/ ToggleShoppingCheckedAct
    \/ RemoveShoppingItemAct
    \/ ClearCheckedItemsAct
    \/ IncrementShoppingQtyAct
    \/ DecrementShoppingQtyAct
    \/ UpdateShoppingUnitAct

SpecRecs == InitShop /\ [][NextRecs]_vars

\* C21: every entry of state.shopping has at least one quantity record.
C21_QuantitiesNeverEmpty ==
    \A k \in 1..Len(shopping) : Len(shopping[k].quantities) >= 1

\* C21 witness: an entry holds a single record that decrementShoppingQty
\* has taken down to the floor, next to an entry with several records
C21_Witness ==
    /\ Len(shopping) = 2
    /\ Len(shopping[1].quantities) = 1
    /\ shopping[1].quantities[1].num <= Scale
    /\ Len(shopping[2].quantities) >= 2
    /\ shopping[1].unit = "kg"

\* ------------------------------------------------- utils.js: quantities
\* the longest quantity string the specifications feed to parseQuantity
MaxQLen == 5

\* the characters of those strings: digits, the space, the slash, a letter
QChars == {"0", "1", "2", " ", "/", "a"}

\* a JavaScript number as a reduced fraction n/d; NaN is the fraction 0/0
NaN == [n |-> 0, d |-> 0]

RECURSIVE Gcd(_, _)
Gcd(a, b) == IF b = 0 THEN a ELSE Gcd(b, a % b)

\* the number n/d for d > 0
Rat(n, d) == LET g == Gcd(n, d) IN [n |-> n \div g, d |-> d \div g]

RatAdd(x, y) == Rat(x.n * y.d + y.n * x.d, x.d * y.d)

\* x / y for y # 0
RatDiv(x, y) == Rat(x.n * y.d, x.d * y.n)

IsNaN(x) == x.d = 0

IsDigits(str) == str # <<>> /\ \A k \in 1..Len(str) : str[k] \in Range(DigitChars)

RECURSIVE DigitsValue(_)
\* the value of a run of decimal digits
DigitsValue(str) ==
    IF str = <<>> THEN 0
    ELSE DigitsValue(SubSeq(str, 1, Len(str) - 1)) * 10
         + (CHOOSE v \in 0..9 : DigitChars[v + 1] = str[Len(str)])

RECURSIVE TrimStart(_)
TrimStart(str) ==
    IF str # <<>> /\ Head(str) = " " THEN TrimStart(Tail(str)) ELSE str

RECURSIVE TrimEnd(_)
TrimEnd(str) ==
    IF str # <<>> /\ str[Len(str)] = " " THEN TrimEnd(SubSeq(str, 1, Len(str) - 1)) ELSE str

\* String.prototype.trim
Trim(str) == TrimEnd(TrimStart(str))

\* Number(str) on the model's alphabet: white space around the numeral is
\* dropped, the empty numeral is 0, anything but digits is NaN
Number(str) ==
    LET t == Trim(str)
    IN  IF t = <<>> THEN Rat(0, 1)
        ELSE IF IsDigits(t) THEN Rat(DigitsValue(t), 1)
        ELSE NaN

RECURSIVE DigitPrefix(_)
\* the leading run of digits of a string
DigitPrefix(str) ==
    IF str # <<>> /\ Head(str) \in Range(DigitChars)
    THEN <<Head(str)>> \o DigitPrefix(Tail(str)) ELSE <<>>

\* parseFloat(str): the numeral at the front of the string, after white
\* space; NaN when there is none
ParseFloat(str) ==
    LET p == DigitPrefix(TrimStart(str))
    IN  IF p = <<>> THEN NaN ELSE Rat(DigitsValue(p), 1)

RECURSIVE Split(_, _)
\* str.split(sep) for a one-character separator
Split(str, sep) ==
    LET cut == FirstIdx({k \in 1..Len(str) : str[k] = sep})
    IN  IF cut = 0 THEN <<str>>
        ELSE <<SubSeq(str, 1, cut - 1)>> \o Split(SubSeq(str, cut + 1, Len(str)), sep)

\* str.match(/^(\d+)\s+(\d+)\/(\d+)$/): the three groups, <<>> for null
MixedMatch(str) ==
    LET whole == DigitPrefix(str)
        rest  == SubSeq(str, Len(whole) + 1, Len(str))
        frac  == TrimStart(rest)
        num   == DigitPrefix(frac)
        tail  == SubSeq(frac, Len(num) + 1, Len(frac))
    IN  IF /\ whole # <<>>
           /\ frac # rest
           /\ num # <<>>
           /\ tail # <<>>
           /\ Head(tail) = "/"
           /\ IsDigits(Tail(tail))
        THEN <<whole, num, Tail(tail)>>
        ELSE <<>>

\* parseQuantity(qty); qty is a value with its typeof
ParseQuantity(qty) ==
    IF qty.type = "number" THEN qty.value
    ELSE IF qty.type # "string" \/ qty.value = <<>> THEN Rat(1, 1)
    ELSE LET str    == Trim(qty.value)
             parts  == Split(str, "/")
             num    == Number(parts[1])
             denom  == Number(parts[2])
             mixed  == MixedMatch(str)
             parsed == ParseFloat(str)
         IN  IF Len(parts) >= 2 /\ ~IsNaN(num) /\ ~IsNaN(denom) /\ denom.n # 0
             THEN RatDiv(num, denom)
             ELSE IF mixed # <<>> /\ DigitsValue(mixed[3]) # 0
             THEN RatAdd(Rat(DigitsValue(mixed[1]), 1),
                         Rat(DigitsValue(mixed[2]), DigitsValue(mixed[3])))
             ELSE IF IsNaN(parsed) THEN Rat(1, 1) ELSE parsed

\* the strings of at most MaxQLen characters
QStrings == UNION {[1..n -> QChars] : n \in 0..MaxQLen}

\* the numbers handed to parseQuantity
QNumbers == {Rat(0, 1), Rat(1, 2), Rat(1, 1), Rat(3, 2), Rat(2, 1)}

QuantityInputs ==
    {[type |-> "number", value |-> v] : v \in QNumbers}
    \cup {[type |-> "string", value |-> s] : s \in QStrings}
    \cup {[type |-> "undefined", value |-> <<>>]}

\* the input of a call is drawn at the start; the call is the one step
InitParse ==
    /\ items = <<>>
    /\ itemsById = <<>>
    /\ shopping = <<>>
    /\ IdleStore
    /\ IdleUi
    /\ \E qty \in QuantityInputs : last = Call("input", qty, <<>>)

UtilsFrame ==
    UNCHANGED <<items, itemsById, bundles, activities, chores, shopping, weeklyPlan,
                formPending, selectedItems, expandedBundles, persisted, saves,
                daySelection, rendered, popup, extension>>

ParseQuantityAct ==
    /\ last.op = "input"
    /\ last' = Call("parseQuantity", last.arg, ParseQuantity(last.arg))
    /\ UtilsFrame

NextParse == ParseQuantityAct

SpecParse == InitParse /\ [][NextParse]_vars

\* a numeral: digits, possibly with white space around them
IsNumeral(str) == IsDigits(Trim(str))

NumeralValue(str) == DigitsValue(Trim(str))

\* position k of str holds the slash of a fraction "a/b" with numerals a, b
FractionAt(str, k) ==
    /\ str[k] = "/"
    /\ IsNumeral(SubSeq(str, 1, k - 1))
    /\ IsNumeral(SubSeq(str, k + 1, Len(str)))

\* positions i < j < k split str into "w", white space, "a", "/", "b"
MixedAt(str, i, j, k) ==
    /\ IsDigits(SubSeq(str, 1, i))
    /\ \A p \in i + 1..j : str[p] = " "
    /\ IsDigits(SubSeq(str, j + 1, k - 1))
    /\ str[k] = "/"
    /\ IsDigits(SubSeq(str, k + 1, Len(str)))

\* the value the stated order gives a string: the fraction, else the mixed
\* fraction, else the numeric parse, else 1
StatedQuantity(input) ==
    LET str == Trim(input)
        K == {k \in 1..Len(str) :
                 FractionAt(str, k) /\ NumeralValue(SubSeq(str, k + 1, Len(str))) # 0}
        M == {m \in (1..Len(str)) \X (1..Len(str)) \X (1..Len(str)) :
                 /\ m[1] < m[2]
                 /\ m[2] < m[3]
                 /\ MixedAt(str, m[1], m[2], m[3])
                 /\ DigitsValue(SubSeq(str, m[3] + 1, Len(str))) # 0}
    IN  IF K # {}
        THEN LET k == CHOOSE k \in K : TRUE
             IN  Rat(NumeralValue(SubSeq(str, 1, k - 1)),
                     NumeralValue(SubSeq(str, k + 1, Len(str))))
        ELSE IF M # {}
        THEN LET m == CHOOSE m \in M : TRUE
             IN  RatAdd(Rat(DigitsValue(SubSeq(str, 1, m[1])), 1),
                        Rat(DigitsValue(SubSeq(str, m[2] + 1, m[3] - 1)),
                            DigitsValue(SubSeq(str, m[3] + 1, Len(str)))))
        ELSE IF IsNaN(ParseFloat(str)) THEN Rat(1, 1)
        ELSE ParseFloat(str)

\* C22: parseQuantity is total and follows the stated order: a number is
\* returned as is; a string "a/b" with numeric a, b and b # 0 yields a/b; a
\* string "w a/b" with b # 0 yields w + a/b; any other string yields its
\* numeric parse; empty or unparseable input yields 1; the result is never
\* a non-number.
C22_ParseQuantityOrder ==
    last.op = "parseQuantity" =>
        /\ ~IsNaN(last.pre)
        /\ last.arg.type = "number" => last.pre = last.arg.value
        /\ last.arg.type = "undefined" => last.pre = Rat(1, 1)
        /\ last.arg.type = "string" => last.pre = StatedQuantity(last.arg.value)

\* ------------------------------------------- utils.js: combineQuantities
\* the longest list of quantity records handed to combineQuantities
MaxParts == 3

\* total.toString() for a whole number, total.toFixed(1) otherwise: the
\* nearest tenth, the larger one of two
NumStr(total) ==
    IF total.d = 1 THEN NumberToString(total.n)
    ELSE LET tenths == (20 * total.n + total.d) \div (2 * total.d)
         IN  NumberToString(tenths \div 10) \o <<".", DigitChars[(tenths % 10) + 1]>>

\* byUnit[unit] = (byUnit[unit] || 0) + num on an object kept as the list
\* of its properties in creation order
AddToUnit(byUnit, unit, num) ==
    LET at == FirstIdx({k \in 1..Len(byUnit) : byUnit[k].unit = unit})
    IN  IF at = 0 THEN Append(byUnit, [unit |-> unit, total |-> num])
        ELSE [byUnit EXCEPT ![at].total = RatAdd(@, num)]

RECURSIVE GroupByUnit(_)
\* the forEach over the records, from the first to the last
GroupByUnit(quantities) ==
    IF quantities = <<>> THEN <<>>
    ELSE LET q == quantities[Len(quantities)]
         IN  AddToUnit(GroupByUnit(SubSeq(quantities, 1, Len(quantities) - 1)),
                       q.unit, ParseQuantity(q.num))

\* a property name that is an array index: a canonical numeral
IsIndexKey(unit) == unit \in Range(DigitChars)

IndexOf(unit) == CHOOSE v \in 0..9 : DigitChars[v + 1] = unit

RECURSIVE SortedIndexKeys(_)
\* the index keys among a set of properties, in ascending numeric order
SortedIndexKeys(props) ==
    IF props = {} THEN <<>>
    ELSE LET low == CHOOSE p \in props : \A o \in props : IndexOf(p.unit) <= IndexOf(o.unit)
         IN  <<low>> \o SortedIndexKeys(props \ {low})

RECURSIVE SelectNamed(_)
SelectNamed(byUnit) ==
    IF byUnit = <<>> THEN <<>>
    ELSE IF IsIndexKey(Head(byUnit).unit) THEN SelectNamed(Tail(byUnit))
    ELSE <<Head(byUnit)>> \o SelectNamed(Tail(byUnit))

\* Object.entries(byUnit): the array-index keys in ascending order, then the
\* other keys in creation order
ObjectEntries(byUnit) ==
    SortedIndexKeys({byUnit[k] : k \in {j \in 1..Len(byUnit) : IsIndexKey(byUnit[j].unit)}})
    \o SelectNamed(byUnit)

\* one part: the number, followed by the unit when it is asked for and not empty
Part(entry, includeUnit) ==
    IF includeUnit /\ entry.unit # "" THEN NumStr(entry.total) \o <<" ", entry.unit>>
    ELSE NumStr(entry.total)

RECURSIVE Join(_)
\* parts.join(' + ')
Join(parts) ==
    IF parts = <<>> THEN <<>>
    ELSE IF Len(parts) = 1 THEN parts[1]
    ELSE parts[1] \o <<" ", "+", " ">> \o Join(Tail(parts))

\* combineQuantities(quantities, includeUnit): the text, character by
\* character, a unit being one token
CombineQuantities(quantities, includeUnit) ==
    IF quantities = <<>> THEN <<"1">>
    ELSE LET entries == ObjectEntries(GroupByUnit(quantities))
             joined  == Join([k \in 1..Len(entries) |-> Part(entries[k], includeUnit)])
         IN  IF joined = <<>> THEN <<"1">> ELSE joined

\* the num fields of the records: numbers and strings
CombineNums ==
    {[type |-> "number", value |-> v] : v \in {Rat(1, 1), Rat(1, 2), Rat(1, 4)}}
    \cup {[type |-> "string", value |-> s] : s \in {<<"1", "/", "2">>, <<>>}}

\* the unit fields: the unit input is free text
CombineUnits == {"", "kg", "g", "2"}

CombineInputs ==
    UNION {[1..n -> [num : CombineNums, unit : CombineUnits]] : n \in 0..MaxParts}

InitCombine ==
    /\ items = <<>>
    /\ itemsById = <<>>
    /\ shopping = <<>>
    /\ IdleStore
    /\ IdleUi
    /\ \E quantities \in CombineInputs, includeUnit \in BOOLEAN :
           last = Call("input", [quantities |-> quantities, includeUnit |-> includeUnit], <<>>)

CombineQuantitiesAct ==
    /\ last.op = "input"
    /\ last' = Call("combineQuantities", last.arg,
                    CombineQuantities(last.arg.quantities, last.arg.includeUnit))
    /\ UtilsFrame

NextCombine == CombineQuantitiesAct

SpecCombine == InitCombine /\ [][NextCombine]_vars

RECURSIVE SumOver(_, _)
\* the sum of parseQuantity(num) over the records at the positions S
SumOver(quantities, S) ==
    IF S = {} THEN Rat(0, 1)
    ELSE LET k == CHOOSE k \in S : TRUE
         IN  RatAdd(ParseQuantity(quantities[k].num), SumOver(quantities, S \ {k}))

RECURSIVE FirstSeen(_)
\* the distinct units of the records, in the order they are first seen
FirstSeen(quantities) ==
    IF quantities = <<>> THEN <<>>
    ELSE LET before == FirstSeen(SubSeq(quantities, 1, Len(quantities) - 1))
             unit   == quantities[Len(quantities)].unit
         IN  IF unit \in Range(before) THEN before ELSE Append(before, unit)

\* the text the aggregation rule gives
StatedCombination(quantities, includeUnit) ==
    LET units == FirstSeen(quantities)
        group == [k \in 1..Len(units) |->
                     [unit |-> units[k],
                      total |-> SumOver(quantities,
                                    {j \in 1..Len(quantities) : quantities[j].unit = units[k]})]]
    IN  IF quantities = <<>> THEN <<"1">>
        ELSE Join([k \in 1..Len(units) |-> Part(group[k], includeUnit)])

\* C23: combineQuantities gives one part per distinct unit (the empty unit
\* is a group of its own), each part the sum of parseQuantity(num) over the
\* records of that unit, written as a whole number or with one decimal, the
\* parts in the order their unit is first seen in the input, joined by
\* " + "; the result is "1" for an empty list.
C23_CombinePerUnit ==
    last.op = "combineQuantities" =>
        last.pre = StatedCombination(last.arg.quantities, last.arg.includeUnit)

\* ------------------------------------------- bundles.js: item references
\* the largest quantity, in units, the specifications let a reference reach
MaxRefQty == 2

RefsWithin(bnds) ==
    \A b \in 1..Len(bnds) : \A k \in 1..Len(bnds[b].items) :
        bnds[b].items[k].quantity <= MaxRefQty * Scale

\* what the calls on a bundle's references leave alone
RefsFrame ==
    UNCHANGED <<items, itemsById, activities, chores, shopping, weeklyPlan,
                formPending, expandedBundles, persisted, saves,
                daySelection, rendered, popup, extension>>

\* addItemToBundle(bundleId, itemId) with the default quantity
AddItemToBundleAct ==
    \E b \in BundleArgs, i \in ItemArgs :
        /\ bundles' = AddItemToBundle(bundles, b, i, Scale)
        /\ RefsWithin(bundles')
        /\ last' = Call("addItemToBundle", [bundleId |-> b, itemId |-> i, quantity |-> Scale],
                        [bundles |-> bundles, selectedItems |-> selectedItems])
        /\ UNCHANGED selectedItems
        /\ RefsFrame

\* removeItemFromBundle(bundleId, itemId)
RemoveItemFromBundleCallAct ==
    \E b \in BundleArgs, i \in ItemArgs \cup {<<"x">>} :
        /\ bundles' = RemoveItemFromBundle(bundles, b, i)
        /\ selectedItems' = RemoveFromSelection(bundles, selectedItems, b, i)
        /\ last' = Call("removeItemFromBundle", [bundleId |-> b, itemId |-> i],
                        [bundles |-> bundles, selectedItems |-> selectedItems])
        /\ RefsFrame

\* updateBundleItemQuantity(bundleId, itemId, quantity)
UpdateBundleItemQuantityAct ==
    \E b \in BundleArgs, i \in ItemArgs, q \in {Scale, 2 * Scale} :
        /\ bundles' = UpdateBundleItemQuantity(bundles, b, i, q)
        /\ last' = Call("updateBundleItemQuantity",
                        [bundleId |-> b, itemId |-> i, quantity |-> q],
                        [bundles |-> bundles, selectedItems |-> selectedItems])
        /\ UNCHANGED selectedItems
        /\ RefsFrame

NextBundleRefs ==
    \/ AddItemToBundleAct
    \/ RemoveItemFromBundleCallAct
    \/ UpdateBundleItemQuantityAct

SpecBundleRefs == InitSelect /\ [][NextBundleRefs]_vars

\* the positions in refs of the references to an item
RefsTo(refs, itemId) == {k \in 1..Len(refs) : refs[k].itemId = itemId}

\* the quantity a reference stands for: a reference without one counts as 1
QuantityOf(ref) == IF ref.quantity = 0 THEN Scale ELSE ref.quantity

\* C24: addItemToBundle keeps one reference per item.  If the bundle already
\* references itemId the call adds qty to that reference's quantity and the
\* number of references is unchanged; otherwise it appends exactly one
\* reference {itemId, quantity: qty} at the end.  After any sequence of
\* addItemToBundle, removeItemFromBundle and updateBundleItemQuantity no
\* bundle holds two references to the same itemId.
C24_OneReferencePerItem ==
    /\ \A b \in 1..Len(bundles) : \A i \in ItemArgs \cup {<<"x">>} :
           Cardinality(RefsTo(bundles[b].items, i)) <= 1
    /\ (last.op = "addItemToBundle" /\ last.arg.bundleId \in BundleIds(bundles)) =>
           LET b    == FindById(bundles, last.arg.bundleId)
               pre  == last.pre.bundles[b].items
               post == bundles[b].items
               at   == RefsTo(pre, last.arg.itemId)
           IN  /\ \A o \in 1..Len(bundles) : o # b => bundles[o] = last.pre.bundles[o]
               /\ IF at # {}
                  THEN /\ Len(post) = Len(pre)
                       /\ \A k \in 1..Len(pre) :
                              IF k \in at
                              THEN /\ post[k].itemId = pre[k].itemId
                                   /\ post[k].quantity = QuantityOf(pre[k]) + last.arg.quantity
                              ELSE post[k] = pre[k]
                  ELSE post = Append(pre, [itemId |-> last.arg.itemId,
                                           quantity |-> last.arg.quantity])

\* C24 witness: addItemToBundle has raised the quantity of a reference in a
\* bundle that an earlier call gave a third reference
C24_Witness ==
    /\ last.op = "addItemToBundle"
    /\ last.arg.bundleId = "b1"
    /\ Len(bundles[1].items) = 3
    /\ Len(last.pre.bundles[1].items) = 3
    /\ bundles[1].items[3].quantity = 2 * Scale

NextRemoveRef ==
    \/ ToggleItemSelectionAct
    \/ SelectAllBundleItemsAct
    \/ RemoveItemFromBundleCallAct

SpecRemoveRef == InitSelect /\ [][NextRemoveRef]_vars

\* the ids selected in a bundle, in the order of the set; <<>> without a set
SelectedIn(sel, bundleId) ==
    LET at == FirstIdx({k \in 1..Len(sel) : sel[k].key = bundleId})
    IN  IF at = 0 THEN <<>> ELSE sel[at].ids

\* C25: removeItemFromBundle(b, i) on an existing reference removes exactly
\* that reference from bundle b and removes i from b's selection set if
\* present, so that afterwards i is not selected in b; the other references
\* of b, their order, and the selection sets of other bundles are unchanged.
C25_RemoveReferenceFrame ==
    (/\ last.op = "removeItemFromBundle"
     /\ last.arg.bundleId \in BundleIds(bundles)
     /\ RefsTo(last.pre.bundles[FindById(bundles, last.arg.bundleId)].items,
               last.arg.itemId) # {}) =>
        LET b   == FindById(bundles, last.arg.bundleId)
            pre == last.pre.bundles[b].items
            at  == CHOOSE k \in RefsTo(pre, last.arg.itemId) : TRUE
        IN  /\ Cardinality(RefsTo(pre, last.arg.itemId)) = 1
            /\ bundles[b].items = SubSeq(pre, 1, at - 1) \o SubSeq(pre, at + 1, Len(pre))
            /\ \A o \in 1..Len(bundles) : o # b => bundles[o] = last.pre.bundles[o]
            /\ last.arg.itemId \notin Range(SelectedIn(selectedItems, last.arg.bundleId))
            /\ SelectedIn(selectedItems, last.arg.bundleId) =
                   SelectSeq(SelectedIn(last.pre.selectedItems, last.arg.bundleId),
                             LAMBDA id : id # last.arg.itemId)
            /\ \A key \in BundleArgs : key # last.arg.bundleId =>
                   SelectedIn(selectedItems, key) = SelectedIn(last.pre.selectedItems, key)

\* C25 witness: the item removed from b2 was selected in b2 and in b1, and
\* is still selected in b1
C25_Witness ==
    /\ last.op = "removeItemFromBundle"
    /\ last.arg = [bundleId |-> "b2", itemId |-> <<"m">>]
    /\ <<"m">> \in Range(SelectedIn(last.pre.selectedItems, "b2"))
    /\ Len(bundles[2].items) = 1
    /\ <<"m">> \in Range(SelectedIn(selectedItems, "b1"))

\* ------------------------------------ weekly.js: the day-selection modal
\* the day selections opened in a behaviour
MaxOpened == 2

\* the clicks on the modal's confirm button in a behaviour
MaxConfirms == 2

\* the modal before it is first shown
NoDaySelection ==
    [active |-> FALSE, pendingBundles |-> <<>>, pendingShoppingItems |-> <<>>,
     callback |-> FALSE, rows |-> <<>>, confirms |-> <<>>, opened |-> <<>>]

InitDays ==
    /\ items = ShopItems
    /\ itemsById = RebuildItemsIndex(ShopItems)
    /\ bundles = PlanBundles
    /\ activities = <<>>
    /\ chores = <<>>
    /\ shopping = <<>>
    /\ weeklyPlan = EmptyPlan
    /\ formPending = <<>>
    /\ selectedItems = <<>>
    /\ expandedBundles = {}
    /\ persisted = <<>>
    /\ saves = <<>>
    /\ daySelection = NoDaySelection
    /\ rendered = <<>>
    /\ popup = <<>>
    /\ extension = <<>>
    /\ last = NoHist

DaysFrame ==
    UNCHANGED <<items, itemsById, bundles, activities, chores, formPending,
                selectedItems, expandedBundles, persisted, saves, rendered, popup,
                extension>>

\* the days of a bundle's row whose checkbox is not disabled: the days the
\* bundle is not planned on when the modal is drawn
EnabledDays(plan, bundle) ==
    SelectSeq(DAYS, LAMBDA d : ~HasRef(plan[<<bundle.category, d>>].refs, bundle.id))

\* showDaySelectionModal(bundlesList, shoppingItems, finishAddingToShopping),
\* as window.addSelectedToShoppingList calls it; the page has the modal
ShowDaySelectionModalAct ==
    \E n \in 1..2 :
        LET bundlesList   == SubSeq(bundles, 2, n + 1)
            shoppingItems == <<PendingEntry(items[1], Scale, bundlesList[1].name)>>
        IN  /\ ~daySelection.active
            /\ Len(daySelection.opened) < MaxOpened
            /\ daySelection' =
                 [daySelection EXCEPT
                    !.active = TRUE,
                    !.pendingBundles = bundlesList,
                    !.pendingShoppingItems = shoppingItems,
                    !.callback = TRUE,
                    !.rows = [k \in 1..n |->
                                 [bundleId |-> bundlesList[k].id,
                                  mealCategory |-> bundlesList[k].category,
                                  enabled |-> EnabledDays(weeklyPlan, bundlesList[k])]],
                    !.opened = Append(@, [bundles |-> bundlesList, items |-> shoppingItems,
                                          confirmed |-> 0, checked |-> {},
                                          calls |-> <<>>])]
            /\ last' = NoHist
            /\ UNCHANGED <<shopping, weeklyPlan>>
            /\ DaysFrame

\* the confirm clicks so far
ConfirmClicks(opened) ==
    IF opened = <<>> THEN 0
    ELSE IF Len(opened) = 1 THEN opened[1].confirmed
    ELSE opened[1].confirmed + opened[2].confirmed

\* confirmDinnerDays() up to `await saveWeeklyPlan()`: the lists and the
\* callback are copied, the checked days are added to the plan
WindowConfirmDinnerDaysAct ==
    \E ticks \in [1..Len(daySelection.rows) -> SUBSET Range(DAYS)] :
        LET rows == [k \in 1..Len(daySelection.rows) |->
                        [bundleId |-> daySelection.rows[k].bundleId,
                         mealCategory |-> daySelection.rows[k].mealCategory,
                         days |-> SelectSeq(daySelection.rows[k].enabled,
                                            LAMBDA d : d \in ticks[k])]]
            cur  == Len(daySelection.opened)
            new  == ConfirmDinnerDays(weeklyPlan, bundles, rows)
        IN  /\ daySelection.active
            /\ \A k \in 1..Len(rows) : ticks[k] \subseteq Range(daySelection.rows[k].enabled)
            /\ ConfirmClicks(daySelection.opened) < MaxConfirms
            /\ PlanWithin(new)
            /\ weeklyPlan' = new
            /\ daySelection' =
                 [daySelection EXCEPT
                    !.confirms = Append(@, [id |-> cur,
                                            bundlesToPass |-> daySelection.pendingBundles,
                                            itemsToPass |-> daySelection.pendingShoppingItems,
                                            callback |-> daySelection.callback]),
                    !.opened[cur].confirmed = @ + 1,
                    !.opened[cur].checked =
                        @ \cup UNION {{<<rows[k].bundleId, d>> : d \in ticks[k]} :
                                       k \in 1..Len(rows)}]
            /\ last' = NoHist
            /\ UNCHANGED shopping
            /\ DaysFrame

\* closeDinnerModal(), from the modal's close button
WindowCloseDinnerModalAct ==
    /\ daySelection.active
    /\ daySelection' = [daySelection EXCEPT !.active = FALSE,
                                            !.pendingBundles = <<>>,
                                            !.pendingShoppingItems = <<>>]
    /\ last' = Call("closeDinnerModal", <<>>,
                    [weeklyPlan |-> weeklyPlan, shopping |-> shopping])
    /\ UNCHANGED <<shopping, weeklyPlan>>
    /\ DaysFrame

\* confirmDinnerDays() after its await, the saves returning in any order:
\* closeDinnerModal(), then the copied callback with the copied lists
\* (finishAddingToShopping up to its own await; the selection it clears
\* afterwards is empty here), then window._daySelectionCallback = null
ConfirmDinnerDaysResumeAct ==
    \E k \in 1..Len(daySelection.confirms) :
        LET c == daySelection.confirms[k]
        IN  /\ shopping' = IF c.callback THEN FinishAddingToShopping(shopping, c.itemsToPass)
                           ELSE shopping
            /\ daySelection' =
                 [daySelection EXCEPT
                    !.active = FALSE,
                    !.pendingBundles = <<>>,
                    !.pendingShoppingItems = <<>>,
                    !.callback = IF c.callback THEN FALSE ELSE @,
                    !.confirms = RemoveAt(@, k),
                    !.opened[c.id].calls =
                        IF c.callback
                        THEN Append(@, [bundles |-> c.bundlesToPass, items |-> c.itemsToPass])
                        ELSE @]
            /\ last' = NoHist
            /\ UNCHANGED weeklyPlan
            /\ DaysFrame

NextDays ==
    \/ ShowDaySelectionModalAct
    \/ WindowConfirmDinnerDaysAct
    \/ WindowCloseDinnerModalAct
    \/ ConfirmDinnerDaysResumeAct

SpecDays == InitDays /\ [][NextDays]_vars

\* the confirmations of selection s that have not resumed yet
InFlight(s) == {k \in 1..Len(daySelection.confirms) : daySelection.confirms[k].id = s}

\* C26: for every day selection opened with showDaySelectionModal(bundles,
\* items, onConfirm), confirming it applies the duplicate-checked meal-slot
\* add for every (bundle, checked day) pair and then invokes onConfirm
\* exactly once, with the bundle and item lists originally passed, under any
\* interleaving of confirm and close events with the pending weekly-plan
\* save; closing without confirming invokes it zero times and changes
\* neither the weekly plan nor the shopping list.
C26_ConfirmOnce ==
    /\ \A s \in 1..Len(daySelection.opened) :
         LET o == daySelection.opened[s]
         IN  /\ Len(o.calls) <= 1
             /\ \A c \in 1..Len(o.calls) :
                    o.calls[c] = [bundles |-> o.bundles, items |-> o.items]
             /\ o.confirmed = 0 => o.calls = <<>>
             /\ (o.confirmed > 0 /\ InFlight(s) = {}) => Len(o.calls) = 1
             /\ \A p \in o.checked :
                    Cardinality({k \in 1..Len(weeklyPlan[<<"dinner", p[2]>>].refs) :
                                    weeklyPlan[<<"dinner", p[2]>>].refs[k].id = p[1]}) = 1
    /\ last.op = "closeDinnerModal" =>
         /\ weeklyPlan = last.pre.weeklyPlan
         /\ shopping = last.pre.shopping

\* C27: shopping entries are unique per item.  Starting from an empty list,
\* after any sequence of addToShoppingList, addManualToShopping,
\* finishAddingToShopping, item renames and shopping mutators, no two
\* entries of state.shopping have the same itemId.
C27_UniquePerItem ==
    \A j, k \in 1..Len(shopping) :
        (shopping[j].itemId = shopping[k].itemId /\ shopping[j].itemId # NoId) => j = k

\* --------------------------------- the shopping view and its callbacks
\* the list of a load, drawn once: two manual entries
ViewShopping ==
    AddManualToShopping(AddManualToShopping(<<>>, <<"M">>, 2 * Scale, "pint"),
                        <<"C">>, Scale, "")

InitView ==
    /\ items = <<>>
    /\ itemsById = <<>>
    /\ shopping = ViewShopping
    /\ IdleStore
    /\ selectedItems = <<>>
    /\ expandedBundles = {}
    /\ persisted = <<>>
    /\ saves = <<>>
    /\ daySelection = <<>>
    /\ rendered = ViewShopping
    /\ popup = <<>>
    /\ extension = <<>>
    /\ last = NoHist

ViewFrame ==
    UNCHANGED <<items, itemsById, bundles, activities, chores, weeklyPlan, formPending,
                selectedItems, expandedBundles, persisted, daySelection, popup, extension>>

\* a window handler of the shopping view up to `await saveShopping()`: the
\* user acts on row `index` of the view as drawn, the handler applies the
\* mutator with that index to state.shopping and issues the save
ViewCall(op, index, new) ==
    /\ index < Len(rendered)
    /\ Len(saves) < MaxSaves
    /\ ShopWithin(new)
    /\ shopping' = new
    /\ saves' = SaveData(saves, "shopping", new, op, TRUE)
    /\ last' = Call(op, [index |-> index],
                    [shopping |-> shopping, displayed |-> rendered[index + 1]])
    /\ UNCHANGED rendered
    /\ ViewFrame

\* window.toggleShoppingChecked(index)
ViewToggleShoppingCheckedAct ==
    \E i \in 0..MaxShop - 1 :
        ViewCall("toggleShoppingChecked", i, ToggleShoppingChecked(shopping, i))

\* window.removeShoppingItem(index)
ViewRemoveShoppingItemAct ==
    \E i \in 0..MaxShop - 1 :
        ViewCall("removeShoppingItem", i, RemoveShoppingItem(shopping, i))

\* window.incrementShoppingQty(index)
ViewIncrementShoppingQtyAct ==
    \E i \in 0..MaxShop - 1 :
        ViewCall("incrementShoppingQty", i, IncrementShoppingQty(shopping, i))

\* window.decrementShoppingQty(index)
ViewDecrementShoppingQtyAct ==
    \E i \in 0..MaxShop - 1 :
        ViewCall("decrementShoppingQty", i, DecrementShoppingQty(shopping, i))

\* window.updateShoppingUnit(index, unit)
ViewUpdateShoppingUnitAct ==
    \E i \in 0..MaxShop - 1 :
        ViewCall("updateShoppingUnit", i, UpdateShoppingUnit(shopping, i, "kg"))

\* a handler goes on after `await saveShopping()`, the saves returning in
\* any order: renderShoppingList draws state.shopping; updateShoppingUnit
\* draws nothing
ViewResumeAct ==
    \E k \in 1..Len(saves) :
        /\ saves' = RemoveAt(saves, k)
        /\ rendered' = IF saves[k].handler = "updateShoppingUnit" THEN rendered
                       ELSE shopping
        /\ last' = NoHist
        /\ UNCHANGED shopping
        /\ ViewFrame

NextView ==
    \/ ViewToggleShoppingCheckedAct
    \/ ViewRemoveShoppingItemAct
    \/ ViewIncrementShoppingQtyAct
    \/ ViewDecrementShoppingQtyAct
    \/ ViewUpdateShoppingUnitAct
    \/ ViewResumeAct

SpecView == InitView /\ [][NextView]_vars

\* the mutator `op` applied to `list` at `index`
ShoppingMutator(op, list, index) ==
    CASE op = "toggleShoppingChecked" -> ToggleShoppingChecked(list, index)
      [] op = "removeShoppingItem" -> RemoveShoppingItem(list, index)
      [] op = "incrementShoppingQty" -> IncrementShoppingQty(list, index)
      [] op = "decrementShoppingQty" -> DecrementShoppingQty(list, index)
      [] OTHER -> UpdateShoppingUnit(list, index, "kg")

\* C28: every call of toggleShoppingChecked, removeShoppingItem,
\* incrementShoppingQty, decrementShoppingQty or updateShoppingUnit issued
\* from the rendered view with the index annotated at render time is
\* applied to the entry that was displayed at that index, under any
\* interleaving of user actions with saves that are still pending.
C28_IndexHitsDisplayedEntry ==
    last.op \in {"toggleShoppingChecked", "removeShoppingItem", "incrementShoppingQty",
                 "decrementShoppingQty", "updateShoppingUnit"} =>
        LET pre == last.pre.shopping
            at  == FirstIdx({k \in 1..Len(pre) : pre[k].name = last.pre.displayed.name})
        IN  /\ at # 0
            /\ shopping = ShoppingMutator(last.op, pre, at - 1)

\* ------------------------------------------ extensions/tesco/popup.js
\* the items of the loaded list
MaxPopupItems == 2

\* the times the specifications let the tab be sent to one item's page
MaxOpens == 2

\* the setTimeout callbacks that may be waiting at once
MaxTimers == 2

\* the popup after processShoppingData has loaded a list: every item is
\* pending.  `page` is the index the content script in the tab works on (-1:
\* none), `messages` the ITEM_RESULT messages sent and not yet received,
\* `timers` the setTimeout callbacks waiting, `opened` the times the tab was
\* sent to each item's URL
LoadedPopup ==
    [items |-> [k \in 1..MaxPopupItems |-> "pending"], currentIndex |-> 0,
     isRunning |-> FALSE, page |-> -1, messages |-> <<>>, timers |-> 0,
     opened |-> [k \in 1..MaxPopupItems |-> 0]]

InitPopup ==
    /\ items = <<>>
    /\ itemsById = <<>>
    /\ shopping = <<>>
    /\ IdleStore
    /\ selectedItems = <<>>
    /\ expandedBundles = {}
    /\ persisted = <<>>
    /\ saves = <<>>
    /\ daySelection = <<>>
    /\ rendered = <<>>
    /\ popup = LoadedPopup
    /\ extension = <<>>
    /\ last = NoHist

PopupFrame ==
    UNCHANGED <<items, itemsById, bundles, activities, chores, shopping, weeklyPlan,
                formPending, selectedItems, expandedBundles, persisted, saves,
                daySelection, rendered, extension, last>>

\* stopAdding()
StopAdding(p) == [p EXCEPT !.isRunning = FALSE]

RECURSIVE ProcessNextItem(_)
\* processNextItem(): items that are not pending are passed over; the tab is
\* sent to the URL of the first pending one, where the content script starts
ProcessNextItem(p) ==
    IF ~p.isRunning \/ p.currentIndex >= Len(p.items) THEN StopAdding(p)
    ELSE IF p.items[p.currentIndex + 1] # "pending"
    THEN ProcessNextItem([p EXCEPT !.currentIndex = @ + 1])
    ELSE [p EXCEPT !.page = p.currentIndex, !.opened[p.currentIndex + 1] = @ + 1]

RECURSIVE FirstPending(_)
\* startAdding's while loop: currentIndex moves to the first pending item
FirstPending(p) ==
    IF p.currentIndex < Len(p.items) /\ p.items[p.currentIndex + 1] # "pending"
    THEN FirstPending([p EXCEPT !.currentIndex = @ + 1])
    ELSE p

\* startAdding()
StartAdding(p) ==
    LET q == FirstPending([p EXCEPT !.isRunning = TRUE])
    IN  IF q.currentIndex >= Len(q.items) THEN StopAdding(q) ELSE ProcessNextItem(q)

PopupWithin(p) == \A k \in 1..Len(p.opened) : p.opened[k] <= MaxOpens

\* a click on Start, which is shown while the automation is not running
StartAddingAct ==
    /\ ~popup.isRunning
    /\ PopupWithin(StartAdding(popup))
    /\ popup' = StartAdding(popup)
    /\ PopupFrame

\* a click on Stop, which is shown while the automation is running
StopAddingAct ==
    /\ popup.isRunning
    /\ popup' = StopAdding(popup)
    /\ PopupFrame

\* the content script on the page the tab was sent to: it adds the product
\* or fails, and sends ITEM_RESULT with the index it was given
ContentScriptAct ==
    \E success \in BOOLEAN :
        /\ popup.page >= 0
        /\ popup' = [popup EXCEPT !.page = -1,
                                  !.messages = Append(@, [index |-> popup.page,
                                                          success |-> success])]
        /\ PopupFrame

\* the popup's listener receives ITEM_RESULT
ItemResultAct ==
    /\ popup.messages # <<>>
    /\ popup.isRunning => popup.timers < MaxTimers
    /\ LET message == Head(popup.messages)
       IN  popup' = [popup EXCEPT
                       !.messages = Tail(@),
                       !.items[message.index + 1] =
                           IF message.success THEN "done" ELSE "failed",
                       !.currentIndex = @ + 1,
                       !.timers = IF popup.isRunning THEN @ + 1 ELSE @]
    /\ PopupFrame

\* the setTimeout callback set by the listener: processNextItem()
TimerAct ==
    /\ popup.timers > 0
    /\ PopupWithin(ProcessNextItem([popup EXCEPT !.timers = @ - 1]))
    /\ popup' = ProcessNextItem([popup EXCEPT !.timers = @ - 1])
    /\ PopupFrame

\* manualCheckOff(index), from the Check Off button of a row: the button is
\* shown unless the item is done or is the current item of a running
\* automation
ManualCheckOffAct ==
    \E index \in 0..MaxPopupItems - 1 :
        /\ popup.items[index + 1] # "done"
        /\ ~(index = popup.currentIndex /\ popup.isRunning)
        /\ popup' = [popup EXCEPT !.items[index + 1] = "done"]
        /\ PopupFrame

NextPopup ==
    \/ StartAddingAct
    \/ StopAddingAct
    \/ ContentScriptAct
    \/ ItemResultAct
    \/ TimerAct
    \/ ManualCheckOffAct

SpecPopup == InitPopup /\ [][NextPopup]_vars

\* C29: within one loaded list the tab is navigated to an item's URL at
\* most once per item; an item that has been opened and awaits its
\* ITEM_RESULT, or whose status is done or failed, is never opened again,
\* under any interleaving of Start and Stop clicks, manual check-offs and
\* ITEM_RESULT messages.
C29_OpenedAtMostOnce ==
    \A k \in 1..Len(popup.opened) : popup.opened[k] <= 1

\* the half of C29 about items that are done or failed
C29_DoneNeverOpened ==
    [][\A k \in 1..Len(popup.items) :
          popup.items[k] # "pending" => popup'.opened[k] = popup.opened[k]]_vars

\* ------------------------------- the extension's check-off and the planner
\* the check-offs that may be between their read and their write at once
MaxCheckOffs == 1

RECURSIVE CheckOff(_, _)
\* the loop of checkAllSuccessful, and checkOffItem for one name: the first
\* entry with each name gets checked = true
CheckOff(shoppingList, names) ==
    IF names = <<>> THEN shoppingList
    ELSE LET at == FirstIdx({k \in 1..Len(shoppingList) :
                                shoppingList[k].name = Head(names)})
         IN  CheckOff(IF at = 0 THEN shoppingList
                      ELSE [shoppingList EXCEPT ![at].checked = TRUE],
                      Tail(names))

InitExtension ==
    /\ items = ShopItems
    /\ itemsById = RebuildItemsIndex(ShopItems)
    /\ shopping = SavedShopping
    /\ IdleStore
    /\ selectedItems = <<>>
    /\ expandedBundles = {}
    /\ persisted = [shopping |-> SavedShopping, weeklyPlan |-> EmptyPlan]
    /\ saves = <<>>
    /\ daySelection = <<>>
    /\ rendered = <<>>
    /\ popup = <<>>
    /\ extension = <<>>
    /\ last = Call("saved", <<>>, SavedShopping)

ExtensionFrame ==
    UNCHANGED <<items, itemsById, bundles, activities, chores, weeklyPlan, formPending,
                selectedItems, expandedBundles, daySelection, rendered, popup>>

\* finishAddingToShopping up to `await saveShopping()`: the planner adds
\* the pending entry of item C
PlannerFinishAddingAct ==
    LET new == FinishAddingToShopping(shopping, <<PendingEntry(items[2], Scale, "Dinner")>>)
    IN  /\ Len(saves) < MaxSaves
        /\ ShopWithin(new)
        /\ shopping' = new
        /\ saves' = SaveData(saves, "shopping", new, "finishAddingToShopping", TRUE)
        /\ UNCHANGED <<persisted, extension, last>>
        /\ ExtensionFrame

\* window.removeShoppingItem(index) up to `await saveShopping()`
PlannerRemoveAct ==
    \E i \in 0..MaxShop - 1 :
        LET new == RemoveShoppingItem(shopping, i)
        IN  /\ Len(saves) < MaxSaves
            /\ new # shopping
            /\ shopping' = new
            /\ saves' = SaveData(saves, "shopping", new, "removeShoppingItem", TRUE)
            /\ UNCHANGED <<persisted, extension, last>>
            /\ ExtensionFrame

\* the service stores a request of the planner and answers ok: saveData
\* returns true
PlannerSaveAppliedAct ==
    \E k \in 1..Len(saves) :
        /\ persisted' = Store(persisted, saves[k])
        /\ saves' = RemoveAt(saves, k)
        /\ last' = Call("saved", <<>>, saves[k].body)
        /\ UNCHANGED <<shopping, extension>>
        /\ ExtensionFrame

\* a request of the planner fails: saveData returns false
PlannerSaveFailedAct ==
    \E k \in 1..Len(saves) :
        /\ saves' = RemoveAt(saves, k)
        /\ UNCHANGED <<shopping, persisted, extension, last>>
        /\ ExtensionFrame

\* checkOffItem(itemName) up to its POST: the service answers the GET with
\* what it holds, the entry with the name is checked in that copy, and the
\* whole copy is posted when the entry was found
CheckOffItemAct ==
    \E n \in {<<"M">>, <<"C">>} :
        LET shoppingList == persisted.shopping
        IN  /\ Len(extension) < MaxCheckOffs
            /\ \E k \in 1..Len(shoppingList) : shoppingList[k].name = n
            /\ extension' = Append(extension, [read |-> shoppingList,
                                               body |-> CheckOff(shoppingList, <<n>>)])
            /\ UNCHANGED <<shopping, persisted, saves, last>>
            /\ ExtensionFrame

\* checkAllSuccessful() up to its POST, the done items being M and C: the
\* copy is posted whether or not an entry was found
CheckAllSuccessfulAct ==
    LET shoppingList == persisted.shopping
    IN  /\ Len(extension) < MaxCheckOffs
        /\ extension' = Append(extension,
                               [read |-> shoppingList,
                                body |-> CheckOff(shoppingList, << <<"M">>, <<"C">> >>)])
        /\ UNCHANGED <<shopping, persisted, saves, last>>
        /\ ExtensionFrame

\* the service stores a POST of the extension, the requests in flight
\* arriving in any order
ExtensionPostAppliedAct ==
    \E k \in 1..Len(extension) :
        /\ persisted' = Store(persisted, [resource |-> "shopping",
                                          body |-> extension[k].body])
        /\ extension' = RemoveAt(extension, k)
        /\ UNCHANGED <<shopping, saves, last>>
        /\ ExtensionFrame

NextExtension ==
    \/ PlannerFinishAddingAct
    \/ PlannerRemoveAct
    \/ PlannerSaveAppliedAct
    \/ PlannerSaveFailedAct
    \/ CheckOffItemAct
    \/ CheckAllSuccessfulAct
    \/ ExtensionPostAppliedAct

SpecExtension == InitExtension /\ [][NextExtension]_vars

\* list `b` is list `a` with some checked flags changed
OnlyChecked(a, b) ==
    /\ Len(a) = Len(b)
    /\ \A k \in 1..Len(a) : [b[k] EXCEPT !.checked = a[k].checked] = a[k]

\* every entry of `saved`, with each of its quantity records, is in `stored`
HoldsAll(stored, saved) ==
    \A j \in 1..Len(saved) :
        \E k \in 1..Len(stored) :
            /\ stored[k].name = saved[j].name
            /\ \A r \in 1..Len(saved[j].quantities) :
                   \E q \in 1..Len(stored[k].quantities) :
                       stored[k].quantities[q] = saved[j].quantities[r]

\* C30: checkOffItem and checkAllSuccessful only change the checked flag of
\* existing entries, and after any interleaving of planner saves of the
\* shopping list with extension check-offs every entry and quantity record
\* in the planner's last successful save is still present in persisted
\* storage.
C30_CheckOffLosesNothing ==
    /\ \A k \in 1..Len(extension) : OnlyChecked(extension[k].read, extension[k].body)
    /\ HoldsAll(persisted.shopping, last.pre)

====
